---- MODULE Spec2Model ----
(***************************************************************************)
(* Booking core of the voice assistant: the booking orchestrator           *)
(* (createBookingFlow), the reservation ledger (bookings table, its        *)
(* partial unique indexes, the status machine, the hold-expiry sweeper),   *)
(* the external calendar and the gcal_create executor of the retry worker. *)
(* Every await of the orchestrator is one step, so that concurrent         *)
(* requests interleave at the points where the event loop can switch.      *)
(***************************************************************************)
EXTENDS Integers, Sequences, FiniteSets, TLC

\* ---------------------------------------------------------------- bounds
NumReq == 2
MaxTime == 5
MaxRetryInserts == 1
MaxApiCalls == 1
MaxAttemptsBound == 8
MaxRunAttempts == 3
MaxApplied == 3
MaxClock == 120
NumCallers == 4

Req == 1..NumReq

\* ------------------------------------------------------ program constants
NULL == -1
HoldMinutes == 5

\* ------------------------------------------------------------------ inputs
\* A phone number is a sequence of characters.
PhoneA == <<"+", "1", "5">>
PhoneA2 == <<"1", "-", "5">>
PhoneB == <<"+", "1", "6">>

\* Request bodies: business id, start and duration in minutes on the
\* calendar axis (minute 0 is midnight of day 0 in the business timezone),
\* buffer in minutes, customer phone, service, explicit emergency flag.
\* A plain request: known business, ordinary service, no flag.
PlainBody(s, d, bf, ph) ==
    [businessId |-> "biz", start |-> s, duration |-> d, buffer |-> bf,
     phone |-> ph, service |-> "hvac", emergencyFlag |-> FALSE]

FirstBody == PlainBody(600, 60, 0, PhoneA)

Bodies ==
    { FirstBody,
      PlainBody(600, 60, 0, PhoneA2),
      PlainBody(600, 60, 0, PhoneB),
      PlainBody(660, 60, 0, PhoneB),
      PlainBody(660, 60, 15, PhoneB) }

VARIABLES
    now,        \* wall clock, minutes
    body,       \* body[r]: the request body of request r
    bk,         \* bk[r]: the bookings row with id bookingId of request r
    pc,         \* pc[r]: position of request r in createBookingFlow
    cur,        \* cur[r]: status read by the updateBookingStatus in progress
    created,    \* created[r]: id of the calendar event the flow holds
    result,     \* result[r]: the HTTP response of request r
    events,     \* the external calendar: set of events
    apc,        \* position of the ledger-API / retry-worker caller
    aop,        \* its operation in progress
    aerr,       \* error code of its last operation
    acalls,     \* number of operations it has started
    tokens,     \* the business has calendar credentials
    tx,         \* tx[r]: the write transaction of request r
    herr,       \* herr[r]: the error the hold transaction of r ended with
    fb,         \* fb[r]: outcome of the last failBooking of request r
    sms,        \* sms[r]: the fire-and-forget SMS chain of request r
    em,         \* em[r]: the fire-and-forget emergency chain of request r
    rt,         \* the retry task the retry worker runs
    rnow,       \* the retry worker's clock, seconds
    wk,         \* wk[w]: run w of runRetriesOnce and the task row it read
    applied,    \* number of times the side effect of the task was applied
    flows,      \* the oauth_flows table: set of rows
    conn,       \* the database connection: open transaction and its undo
    cf,         \* cf[c]: call c of consumeOAuthFlow
    onow,       \* wall clock of the OAuth endpoints, seconds
    cb,         \* cb[c]: request c of GET /auth/google/callback
    gtok,       \* token stores done by callbacks: set of records
    grow,       \* the google_tokens row of the business
    gput,       \* the refresh token last stored through upsertGoogleTokens
    gread,      \* what the last getGoogleTokens returned
    win,        \* a booking request against a time-window policy, and its answer
    busy,       \* busy intervals handed to normalizeBusyUtc, and what it returned
    mig,        \* the schema database, its migrations ledger and the migration runner
    boot,       \* the server process from start() on: position, steps taken, exit
    sw,         \* a bookings table of several businesses under the expired-hold sweep
    au,         \* the sms_logs rows of one dedupe key and the auto-SMS invocations
    rh,         \* one call of the synchronous retry helper
    gs,         \* one call of generateSlots
    rq          \* the retries table, the worker's runs over it and the clock

workerVars == <<wk, applied>>
oauthVars == <<flows, conn, cf, onow, cb, gtok>>
vaultVars == <<grow, gput, gread>>
lateVars == <<sw, au, rh, gs, rq>>
otherVars == <<workerVars, oauthVars, vaultVars, win, busy, mig, boot, lateVars>>

vars == <<now, body, bk, pc, cur, created, result, events, apc, aop, aerr, acalls,
          tokens, tx, herr, fb, sms, em, rt, rnow, otherVars>>

\* ------------------------------------------------- subsystems at rest
\* Runs of runRetriesOnce that can be in progress at the same time.
Run == 1..2

NoTask == [status |-> "none", attempt_count |-> 0, max_attempts |-> 0,
           next_attempt_at_utc |-> 0]
NoRun == [pc |-> "idle", retry |-> NoTask, at |-> 0]

WorkerIdle == wk = [w \in Run |-> NoRun] /\ applied = 0

\* Concurrent callers of consumeOAuthFlow.
Caller == 1..NumCallers

NoFlow == [nonce |-> "", business_id |-> "", code_verifier |-> "",
           expires_at_utc |-> 0]
NoCall == [pc |-> "idle", nonce |-> "", row |-> NoFlow, ret |-> "none", at |-> 0]
NoConn == [active |-> FALSE, saved |-> {}]
NoCallback == [pc |-> "idle", st |-> "none", out |-> "none"]

OAuthIdle ==
    /\ flows = {}
    /\ conn = NoConn
    /\ cf = [c \in Caller |-> NoCall]
    /\ onow = 0
    /\ cb = [c \in Caller |-> NoCallback]
    /\ gtok = {}

\* JavaScript values: undefined, null, strings (sequences of characters)
\* and the object { enc, iv, tag }.
Undefined == [t |-> "undefined"]
Null == [t |-> "null"]
Str(v) == [t |-> "str", v |-> v]
Truthy(x) == x.t = "obj" \/ (x.t = "str" /\ x.v # <<>>)

NoTokenRow ==
    [exists |-> FALSE, access_token |-> Null, scope |-> Null,
     refresh_token |-> Null,
     refresh_token_enc |-> Null, refresh_token_iv |-> Null,
     refresh_token_tag |-> Null]
NoRead == [valid |-> FALSE, refresh_token |-> Null]

VaultIdle == grow = NoTokenRow /\ gput = Null /\ gread = NoRead

NoWindow == [nowMin |-> 0, lead_time_min |-> 0, max_days_ahead |-> 0,
             start |-> 0, status |-> 0, details |-> <<>>]

WindowIdle == win = NoWindow

NoBusy == [list |-> <<>>, bufferBeforeMin |-> 0, bufferAfterMin |-> 0,
           out |-> <<>>, done |-> FALSE]

BusyIdle == busy = NoBusy

NoMig == [pc |-> "idle", wrapped |-> FALSE, kind |-> <<>>, effects |-> <<>>,
          ledger |-> {}, applied |-> {}, i |-> 0, starts |-> 0]

MigIdle == mig = NoMig

NoBoot == [pc |-> "off", RUN_TOKEN_MIGRATION |-> FALSE, RUN_RETRY_WORKER |-> FALSE,
           fails |-> "none", log |-> <<>>, ticks |-> 0, exited |-> FALSE,
           exitCode |-> 0]

BootIdle == boot = NoBoot

NoSweep == [pc |-> "off"]
NoAutoSms == [pc |-> "off"]
NoRetryCall == [pc |-> "off"]
NoSlots == [pc |-> "off"]
NoQueue == [pc |-> "off"]

LateIdle ==
    sw = NoSweep /\ au = NoAutoSms /\ rh = NoRetryCall /\ gs = NoSlots /\ rq = NoQueue

OtherIdle == WorkerIdle /\ OAuthIdle /\ VaultIdle /\ WindowIdle /\ BusyIdle /\ MigIdle /\ BootIdle /\ LateIdle

\* ---------------------------------------------------------- pure helpers

\* part_025:84-86  String(phone).replace(/\D/g, "")
IsDigit(c) == c \in {"0", "1", "2", "3", "4", "5", "6", "7", "8", "9"}
normalizePhoneDigits(phone) == SelectSeq(phone, IsDigit)

\* A key built from the phone as typed, without normalisation.
buildRawKey(b) == <<b.businessId, b.start, b.duration, b.phone>>

\* part_025:88-91  sha256 of "business|start|duration|digits", 128 bits;
\* modelled as the tuple it hashes (collision free).
buildBookingIdempotencyKey(b) ==
    <<b.businessId, b.start, b.duration, normalizePhoneDigits(b.phone)>>

\* part_025:292
slotKeyOf(b) == <<b.businessId, b.start>>

\* part_025:70-81  validateAndBuildSchedule
schedule(b) ==
    [startUtc |-> b.start,
     endUtc |-> b.start + b.duration,
     holdStartUtc |-> b.start - b.buffer,
     holdEndUtc |-> b.start + b.duration + b.buffer]

NoRow == [status |-> "none", hold |-> NULL, event |-> NULL, reason |-> "none"]
NoResult == [status |-> 0, bookingId |-> 0, confirmer |-> FALSE]

\* The SMS chain of a request: its position, the outcome of the send, the
\* statuses written to sms_logs, the retries it enqueued.
NoSms == [pc |-> "none", sent |-> "none", logs |-> {}, tasks |-> {},
          threw |-> FALSE]
\* The emergency chain of a request: its position and the number of
\* handleEmergency invocations.
NoEm == [pc |-> "none", calls |-> 0, outcome |-> "none"]
\* No retry task is queued.

Exists(t, r) == t[r].status # "none"

\* ------------------------------------------------------------- the ledger

\* A transition table that also lets a confirmed booking fail.
LooseTransitions ==
    [pending |-> {"confirmed", "failed", "cancelled"},
     confirmed |-> {"cancelled", "failed"},
     failed |-> {},
     cancelled |-> {}]

\* db.js:40-45
BOOKING_TRANSITIONS ==
    [pending |-> {"confirmed", "failed", "cancelled"},
     confirmed |-> {"cancelled"},
     failed |-> {},
     cancelled |-> {}]

\* An index predicate that covers confirmed rows only.
IndexConfirmedOnly(row, t) == row.status = "confirmed"

\* 007_persistent_logs_retries.sql:55-62 and
\* 012_bookings_idempotency_key_unique.sql:3-13: the WHERE clause of both
\* partial unique indexes, evaluated at time t.
IndexPredicate(row, t) ==
    \/ row.status = "confirmed"
    \/ /\ row.status = "pending"
       /\ row.hold # NULL
       /\ row.hold > t

\* 007_persistent_logs_retries.sql:55-62  uniq_bookings_active_slot_key:
\* writing row r of table t keeps slot_key unique among indexed rows.
uniq_bookings_active_slot_key(t, r, at) ==
    IndexPredicate(t[r], at) =>
        \A o \in Req \ {r} :
            (Exists(t, o) /\ IndexPredicate(t[o], at))
                => slotKeyOf(body[o]) # slotKeyOf(body[r])

\* 012_bookings_idempotency_key_unique.sql:3-13
uniq_bookings_active_idempotency_key(t, r, at) ==
    IndexPredicate(t[r], at) =>
        \A o \in Req \ {r} :
            (Exists(t, o) /\ IndexPredicate(t[o], at))
                => buildBookingIdempotencyKey(body[o]) # buildBookingIdempotencyKey(body[r])

\* A sweep that cancels every pending hold, expired or not.
cleanupAllHolds(t, at) ==
    [r \in Req |->
        IF t[r].status = "pending"
        THEN [t[r] EXCEPT !.status = "cancelled"]
        ELSE t[r]]

\* db.js:441-459  cleanupExpiredHolds(businessId): one UPDATE
cleanupExpiredHolds(t, at) ==
    [r \in Req |->
        IF t[r].status = "pending" /\ t[r].hold # NULL /\ t[r].hold <= at
        THEN [t[r] EXCEPT !.status = "cancelled"]
        ELSE t[r]]

\* db.js:577-588  the sweep inside the hold transaction
SweepInTx(t, at) ==
    [r \in Req |->
        IF t[r].status = "pending" /\ t[r].hold # NULL /\ t[r].hold <= at
        THEN [t[r] EXCEPT !.status = "cancelled", !.hold = NULL]
        ELSE t[r]]

\* db.js:590-605  the overlap SELECT of the hold transaction
ActiveOverlap(t, r, at) ==
    \E o \in Req \ {r} :
        /\ Exists(t, o)
        /\ \/ t[o].status = "confirmed"
           \/ t[o].status = "pending" /\ (t[o].hold = NULL \/ t[o].hold > at)
        /\ schedule(body[o]).holdStartUtc < schedule(body[r]).holdEndUtc
        /\ schedule(body[o]).holdEndUtc > schedule(body[r]).holdStartUtc

\* An UPDATE that no unique index guards.
ApplyUpdateUnchecked(t, r, newRow, at) ==
    [ok |-> TRUE, table |-> [t EXCEPT ![r] = newRow]]

\* db.js:706  the UPDATE of updateBookingStatus: the new table, or the
\* old one when a unique index rejects the statement (ok = FALSE).
ApplyUpdate(t, r, newRow, at) ==
    LET nt == [t EXCEPT ![r] = newRow]
        ok == /\ uniq_bookings_active_slot_key(nt, r, at)
              /\ uniq_bookings_active_idempotency_key(nt, r, at)
    IN [ok |-> ok, table |-> IF ok THEN nt ELSE t]

\* db.js:684-695  the read and the transition check of updateBookingStatus
TransitionAllowed(t, r, newStatus) ==
    /\ Exists(t, r)
    /\ newStatus \in BOOKING_TRANSITIONS[t[r].status]

\* db.js:659-666  the fields confirmBooking writes
confirmedRow(row, gcalEventId) ==
    [row EXCEPT !.status = "confirmed", !.hold = NULL,
                !.event = gcalEventId, !.reason = "none"]

\* A failBooking that records the reason and keeps the status.
failedRowKeepsStatus(row, reason) == [row EXCEPT !.reason = reason]

\* db.js:668-676  the fields failBooking writes
failedRow(row, why) ==
    [row EXCEPT !.status = "failed", !.hold = NULL, !.reason = why]

\* db.js:678-681  cancelBooking writes the status only
cancelledRow(row) == [row EXCEPT !.status = "cancelled"]

\* A lookup by key alone, whatever the status of the row.
getBookingByIdempotencyKeyAnyStatus(t, key) ==
    { o \in Req : /\ Exists(t, o)
                  /\ buildBookingIdempotencyKey(body[o]) = key }

\* Ledger lookup by (business, idempotency key): the rows a resubmission
\* can be answered from.
getBookingByIdempotencyKey(t, key) ==
    { o \in Req : /\ t[o].status \in {"pending", "confirmed"}
                  /\ buildBookingIdempotencyKey(body[o]) = key }

\* The hold insert run between BEGIN IMMEDIATE and COMMIT: sweep, overlap
\* check, INSERT under both unique indexes.
createPendingBookingLock(t, r, at) ==
    LET swept == SweepInTx(t, at)
        ins == [swept EXCEPT ![r] =
                   [status |-> "pending", hold |-> at + HoldMinutes,
                    event |-> NULL, reason |-> "none"]]
    IN  IF ActiveOverlap(swept, r, at)
        THEN [outcome |-> "overlap", table |-> t]
        ELSE IF ~uniq_bookings_active_idempotency_key(ins, r, at)
        THEN [outcome |-> "uniq_bookings_active_idempotency_key", table |-> t]
        ELSE IF ~uniq_bookings_active_slot_key(ins, r, at)
        THEN [outcome |-> "uniq_bookings_active_slot_key", table |-> t]
        ELSE [outcome |-> "ok", table |-> ins]

\* ------------------------------------------------------- external calendar

\* Event ids: attempts 1 and 2 of the flow, then the retry worker's inserts.
EventId(r, n) == (r - 1) * (2 + MaxRetryInserts) + n

\* part_025:408-423  the event createBookingFlow inserts (attempt n)
FlowEvent(r, n) ==
    [id |-> EventId(r, n),
     key |-> buildBookingIdempotencyKey(body[r]),
     start |-> schedule(body[r]).startUtc,
     end |-> schedule(body[r]).endUtc]

\* part_020:35-43  the event the gcal_create executor inserts: no
\* extendedProperties, hence no idempotency key
RetryEvent(r, n) ==
    [id |-> EventId(r, 2 + n),
     key |-> <<>>,
     start |-> schedule(body[r]).startUtc,
     end |-> schedule(body[r]).endUtc]

\* A busy test that only sees events strictly containing the slot.
BusyRangesContaining(r) ==
    { e \in events : /\ e.start < schedule(body[r]).startUtc
                     /\ e.end > schedule(body[r]).endUtc }

\* part_025:316-339  freebusy over [startUtc, endUtc)
BusyRanges(r) ==
    { e \in events : /\ e.start < schedule(body[r]).endUtc
                     /\ e.end > schedule(body[r]).startUtc }

\* part_025:451-456
padMinutes(r) ==
    LET d == schedule(body[r]).endUtc - schedule(body[r]).startUtc
        m == IF d + 60 < 24 * 60 THEN d + 60 ELSE 24 * 60
    IN IF m > 60 THEN m ELSE 60

\* part_025:460-482  events.list in the padded window, filtered by key
ListedEvents(r) ==
    { e \in events :
        /\ e.key = buildBookingIdempotencyKey(body[r])
        /\ e.end > schedule(body[r]).startUtc - padMinutes(r)
        /\ e.start < schedule(body[r]).endUtc + padMinutes(r) }

Abs(x) == IF x < 0 THEN 0 - x ELSE x

\* part_025:153-196  validateFoundEventMatchesSchedule (dateTime events)
validateFoundEventMatchesSchedule(e, r) ==
    /\ e.key = buildBookingIdempotencyKey(body[r])
    /\ Abs(e.start - schedule(body[r]).startUtc) <= 2
    /\ Abs(e.end - schedule(body[r]).endUtc) <= 2

\* ------------------------------------------- business and classification

MinutesPerDay == 24 * 60

\* The tenant (db.js:61-63, 006_emergency_routing.sql:4-5): the daily
\* working_hours_start / working_hours_end columns, the weekly working-hours
\* map (day 0 of the calendar axis is a Monday; Monday to Friday one window,
\* the weekend closed), and the booking-window policy.
Business ==
    [id |-> "biz",
     working_hours_start |-> 8 * 60,
     working_hours_end |-> 17 * 60,
     working_hours |->
        [d \in 0..6 |-> IF d < 5 THEN <<[start |-> 8 * 60, end |-> 17 * 60]>>
                                 ELSE <<>>],
     lead_time_min |-> 60,
     max_days_ahead |-> 14]

\* businessHours.js:16-44  the explicit daily columns win over the map
getProfileHours(profile) ==
    [start |-> profile.working_hours_start, end |-> profile.working_hours_end]

\* businessHours.js:46-68
isOutsideBusinessHours(startUtc, profile) ==
    LET hours == getProfileHours(profile)
        currentMinutes == startUtc % MinutesPerDay
    IN  IF hours.start = hours.end THEN FALSE
        ELSE IF hours.start < hours.end
             THEN currentMinutes < hours.start \/ currentMinutes >= hours.end
             ELSE currentMinutes >= hours.end /\ currentMinutes < hours.start

\* part_025:278-291
isEmergency(b) ==
    \/ b.service = "emergency"
    \/ isOutsideBusinessHours(schedule(b).startUtc, Business)
    \/ b.emergencyFlag

\* Credentials that are always found.
loadTokensAlways(stored) == TRUE

\* googleAuth.js loadTokensIntoClientForBusiness under part_025:304-312:
\* resolves when the business has stored tokens, throws otherwise
loadTokensIntoClientForBusiness(stored) == stored

\* part_025:44-82  validateAndBuildSchedule: the errors it collects
validateAndBuildSchedule(b) ==
    (IF b.businessId = "" THEN {"Missing businessId"} ELSE {})
    \cup (IF b.start = NULL
          THEN {"Missing startLocal", "Invalid startLocal/timezone"} ELSE {})
    \cup (IF b.duration <= 0 \/ b.duration > 8 * 60
          THEN {"Invalid durationMins"} ELSE {})
    \cup (IF b.buffer < 0 \/ b.buffer > 24 * 60
          THEN {"Invalid bufferMins"} ELSE {})

\* luxon endOf("day"), to the minute
endOfDay(t) == (t \div MinutesPerDay) * MinutesPerDay + (MinutesPerDay - 1)

Min(a, b) == IF a < b THEN a ELSE b
Max(a, b) == IF a > b THEN a ELSE b

\* A horizon that ends at the requested instant of the last day.
timeWindowDetailsNoEndOfDay(start, t, lead_time_min, max_days_ahead) ==
    LET earliestAllowed == t + Max(0, lead_time_min)
        latestAllowed == t + Max(0, max_days_ahead) * MinutesPerDay
    IN  (IF start < earliestAllowed THEN <<"START_TOO_SOON">> ELSE <<>>)
        \o (IF start > latestAllowed THEN <<"START_TOO_FAR">> ELSE <<>>)

\* part_025:93-140  validateBookingTimeWindow for a policy: the reasons of
\* the details it collects, in order
timeWindowDetails(start, t, lead_time_min, max_days_ahead) ==
    LET leadTimeMin == Max(0, lead_time_min)
        maxDaysAhead == Max(0, max_days_ahead)
        earliestAllowed == t + leadTimeMin
        latestAllowed == endOfDay(t + maxDaysAhead * MinutesPerDay)
    IN  (IF start < earliestAllowed THEN <<"START_TOO_SOON">> ELSE <<>>)
        \o (IF start > latestAllowed THEN <<"START_TOO_FAR">> ELSE <<>>)

\* part_025:93-140  validateBookingTimeWindow: the details it collects
validateBookingTimeWindow(b, t) ==
    LET details == timeWindowDetails(b.start, t, Business.lead_time_min,
                                     Business.max_days_ahead)
    IN  {details[i] : i \in 1..Len(details)}

\* part_008:85-110  the text sendBookingConfirmation builds: customer name,
\* local time and confirmation id
confirmationMessage(r) == <<"confirmed", schedule(body[r]).startUtc, r>>

\* A retry payload without the recipient.
smsRetryTaskNoRecipient(r, message) ==
    [kind |-> "twilio_sms", bookingId |-> r, to |-> <<>>, body |-> message]

\* part_025:587-597  the payload of the twilio_sms retry
smsRetryTask(r, message) ==
    [kind |-> "twilio_sms", bookingId |-> r, to |-> body[r].phone,
     body |-> message]

\* ------------------------------------------------------------------- Init

Init ==
    /\ now = 0
    /\ body \in [Req -> Bodies]
    /\ body[1] = FirstBody
    /\ bk = [r \in Req |-> NoRow]
    /\ pc = [r \in Req |-> "cleanup"]
    /\ cur = [r \in Req |-> "none"]
    /\ created = [r \in Req |-> NULL]
    /\ result = [r \in Req |-> NoResult]
    /\ events = {}
    /\ apc = "idle"
    /\ aop = [kind |-> "none", b |-> 0, snap |-> "none"]
    /\ aerr = "none"
    /\ acalls = 0
    /\ tokens = TRUE
    /\ tx = [r \in Req |-> "none"]
    /\ herr = [r \in Req |-> "none"]
    /\ fb = [r \in Req |-> "none"]
    /\ sms = [r \in Req |-> NoSms]
    /\ em = [r \in Req |-> NoEm]
    /\ rt = NoTask
    /\ rnow = 0
    /\ OtherIdle

apiVars == <<apc, aop, aerr, acalls>>
notifyVars == <<sms, em>>
retryVars == <<rt, rnow>>
sideVars == <<tokens, tx, herr, fb, notifyVars, retryVars, otherVars>>
flowVars == <<now, body, pc, cur, created, result>>

Respond(r, code, id, conf) ==
    /\ result' = [result EXCEPT ![r] =
                     [status |-> code, bookingId |-> id, confirmer |-> conf]]
    /\ pc' = [pc EXCEPT ![r] = "done"]

Goto(r, label) ==
    /\ pc' = [pc EXCEPT ![r] = label]
    /\ UNCHANGED result

\* --------------------------------------------------- createBookingFlow

\* part_025:259-261
Cleanup(r) ==
    /\ pc[r] = "cleanup"
    /\ bk' = cleanupExpiredHolds(bk, now)
    /\ Goto(r, "lookup")
    /\ UNCHANGED <<now, body, cur, created, events, apiVars, sideVars>>

\* part_025:263-276
Lookup(r) ==
    /\ pc[r] = "lookup"
    /\ LET found == getBookingByIdempotencyKey(bk, buildBookingIdempotencyKey(body[r]))
       IN IF found = {}
          THEN Goto(r, "freebusy")
          ELSE \E e \in found :
                  IF bk[e].status = "confirmed"
                  THEN Respond(r, 200, e, FALSE)
                  ELSE Respond(r, 202, e, FALSE)
    /\ UNCHANGED <<now, body, bk, cur, created, events, apiVars, sideVars>>

\* part_025:314-344  freebusy answered
FreeBusy(r) ==
    /\ pc[r] = "freebusy"
    /\ loadTokensIntoClientForBusiness(tokens)
    /\ IF BusyRanges(r) # {}
       THEN Respond(r, 409, 0, FALSE)
       ELSE Goto(r, "hold")
    /\ UNCHANGED <<now, body, bk, cur, created, events, apiVars, sideVars>>

\* part_025:316-337, 645-657  freebusy fails after its retries; bookingId
\* is still null, so nothing is marked failed
FreeBusyError(r) ==
    /\ pc[r] = "freebusy"
    /\ loadTokensIntoClientForBusiness(tokens)
    /\ Respond(r, 500, 0, FALSE)
    /\ UNCHANGED <<now, body, bk, cur, created, events, apiVars, sideVars>>

\* A hold step that goes on to the event insert without a committed row.
HoldTxWithoutRow(r) ==
    /\ pc[r] = "hold"
    /\ Goto(r, "insert1")
    /\ UNCHANGED <<now, body, bk, cur, created, events, apiVars, sideVars>>

\* part_025:346-406  BEGIN IMMEDIATE, createPendingBookingLock, COMMIT, and
\* the mapping of a constraint violation
HoldTx(r) ==
    /\ pc[r] = "hold"
    /\ LET res == createPendingBookingLock(bk, r, now)
           again == getBookingByIdempotencyKey(bk, buildBookingIdempotencyKey(body[r]))
       IN  /\ bk' = res.table
           /\ CASE res.outcome = "ok" -> Goto(r, "insert1")
                [] res.outcome = "uniq_bookings_active_idempotency_key" /\ again # {} ->
                      \E e \in again :
                          IF bk[e].status = "confirmed"
                          THEN Respond(r, 200, e, FALSE)
                          ELSE Respond(r, 202, e, FALSE)
                [] OTHER -> Respond(r, 409, 0, FALSE)
           /\ tx' = [tx EXCEPT ![r] =
                        IF res.outcome = "ok" THEN "committed" ELSE "rolledback"]
           /\ herr' = [herr EXCEPT ![r] =
                          IF res.outcome = "ok" THEN "none" ELSE res.outcome]
    /\ UNCHANGED <<now, body, cur, created, events, apiVars, tokens, fb,
                   notifyVars, retryVars, otherVars>>

\* part_025:375-405  a storage error that is not a constraint violation
HoldTxError(r) ==
    /\ pc[r] = "hold"
    /\ Respond(r, 500, 0, FALSE)
    /\ tx' = [tx EXCEPT ![r] = IF @ = "open" THEN "rolledback" ELSE @]
    /\ herr' = [herr EXCEPT ![r] = "error"]
    /\ UNCHANGED <<now, body, bk, cur, created, events, apiVars, tokens, fb,
                   notifyVars, retryVars, otherVars>>

\* part_025:426-433  events.insert succeeds (attempt 1)
Insert1Ok(r) ==
    /\ pc[r] = "insert1"
    /\ events' = events \cup {FlowEvent(r, 1)}
    /\ created' = [created EXCEPT ![r] = EventId(r, 1)]
    /\ Goto(r, "confirm_read")
    /\ UNCHANGED <<now, body, bk, cur, apiVars, sideVars>>

\* part_025:434-457  attempt 1 fails with a retryable error; on a timeout
\* the insert may have taken effect on the calendar all the same
Insert1Transient(r) ==
    /\ pc[r] = "insert1"
    /\ \E tookEffect \in BOOLEAN :
          events' = IF tookEffect THEN events \cup {FlowEvent(r, 1)} ELSE events
    /\ Goto(r, "list")
    /\ UNCHANGED <<now, body, bk, cur, created, apiVars, sideVars>>

\* part_025:434-439  attempt 1 fails with a non-retryable error
Insert1Fatal(r) ==
    /\ pc[r] = "insert1"
    /\ Goto(r, "fail1_read")
    /\ UNCHANGED <<now, body, bk, cur, created, events, apiVars, sideVars>>

\* part_025:458-521  the idempotency-key lookup answers
ListEvents(r) ==
    /\ pc[r] = "list"
    /\ IF ListedEvents(r) = {}
       THEN /\ Goto(r, "insert2")
            /\ UNCHANGED created
       ELSE \E e \in ListedEvents(r) :
               IF validateFoundEventMatchesSchedule(e, r)
               THEN /\ created' = [created EXCEPT ![r] = e.id]
                    /\ Goto(r, "confirm_read")
               ELSE /\ Goto(r, "insert2")
                    /\ UNCHANGED created
    /\ UNCHANGED <<now, body, bk, cur, events, apiVars, sideVars>>

\* part_025:459-483  the lookup throws: swallowed, existingEvent stays null
ListEventsError(r) ==
    /\ pc[r] = "list"
    /\ Goto(r, "insert2")
    /\ UNCHANGED <<now, body, bk, cur, created, events, apiVars, sideVars>>

\* part_025:426-433  events.insert succeeds (attempt 2)
Insert2Ok(r) ==
    /\ pc[r] = "insert2"
    /\ events' = events \cup {FlowEvent(r, 2)}
    /\ created' = [created EXCEPT ![r] = EventId(r, 2)]
    /\ Goto(r, "confirm_read")
    /\ UNCHANGED <<now, body, bk, cur, apiVars, sideVars>>

\* part_025:434-439  attempt 2 fails (any error)
Insert2Error(r) ==
    /\ pc[r] = "insert2"
    /\ \E tookEffect \in BOOLEAN :
          events' = IF tookEffect THEN events \cup {FlowEvent(r, 2)} ELSE events
    /\ Goto(r, "fail1_read")
    /\ UNCHANGED <<now, body, bk, cur, created, apiVars, sideVars>>

\* db.js:684-695 under part_025:517,535  confirmBooking: read and check
ConfirmRead(r) ==
    /\ pc[r] = "confirm_read"
    /\ IF TransitionAllowed(bk, r, "confirmed")
       THEN /\ cur' = [cur EXCEPT ![r] = bk[r].status]
            /\ Goto(r, "confirm_write")
       ELSE /\ Goto(r, "fail2_read")
            /\ UNCHANGED cur
    /\ UNCHANGED <<now, body, bk, created, events, apiVars, sideVars>>

\* db.js:697-707 under part_025:517,535, then part_025:632-644
ConfirmWrite(r) ==
    /\ pc[r] = "confirm_write"
    /\ LET upd == ApplyUpdate(bk, r, confirmedRow(bk[r], created[r]), now)
       IN  /\ bk' = upd.table
           /\ IF upd.ok
              THEN /\ Respond(r, 200, r, TRUE)
                   /\ sms' = [sms EXCEPT ![r].pc = "log_queued"]
                   /\ em' = [em EXCEPT ![r].pc =
                                IF isEmergency(body[r]) THEN "scheduled" ELSE "none"]
              ELSE /\ Goto(r, "fail2_read")
                   /\ UNCHANGED notifyVars
    /\ cur' = [cur EXCEPT ![r] = "none"]
    /\ UNCHANGED <<now, body, created, events, apiVars, tokens, tx, herr, fb, retryVars, otherVars>>

\* db.js:684-695 under part_025:437  failBooking: read and check
Fail1Read(r) ==
    /\ pc[r] = "fail1_read"
    /\ IF TransitionAllowed(bk, r, "failed")
       THEN /\ cur' = [cur EXCEPT ![r] = bk[r].status]
            /\ Goto(r, "fail1_write")
       ELSE /\ Goto(r, "fail2_read")
            /\ UNCHANGED cur
    /\ fb' = [fb EXCEPT ![r] =
                 IF TransitionAllowed(bk, r, "failed") THEN @ ELSE "threw"]
    /\ UNCHANGED <<now, body, bk, created, events, apiVars, tokens, tx, herr,
                   notifyVars, retryVars, otherVars>>

\* db.js:697-707 under part_025:437-438
Fail1Write(r) ==
    /\ pc[r] = "fail1_write"
    /\ bk' = ApplyUpdate(bk, r, failedRow(bk[r], "GOOGLE_EVENTS_INSERT_FAILED"), now).table
    /\ Respond(r, 500, 0, FALSE)
    /\ cur' = [cur EXCEPT ![r] = "none"]
    /\ fb' = [fb EXCEPT ![r] = "ok"]
    /\ UNCHANGED <<now, body, created, events, apiVars, tokens, tx, herr,
                   notifyVars, retryVars, otherVars>>

\* part_025:437, 645-657  the failBooking of the insert loop throws a
\* storage error: the exception reaches the outer catch
Fail1Error(r) ==
    /\ pc[r] \in {"fail1_read", "fail1_write"}
    /\ Goto(r, "fail2_read")
    /\ cur' = [cur EXCEPT ![r] = "none"]
    /\ fb' = [fb EXCEPT ![r] = "threw"]
    /\ UNCHANGED <<now, body, bk, created, events, apiVars, tokens, tx, herr,
                   notifyVars, retryVars, otherVars>>

\* db.js:684-695 under part_025:645-657  the catch-all failBooking
Fail2Read(r) ==
    /\ pc[r] = "fail2_read"
    /\ IF TransitionAllowed(bk, r, "failed")
       THEN /\ cur' = [cur EXCEPT ![r] = bk[r].status]
            /\ Goto(r, "fail2_write")
       ELSE /\ Respond(r, 500, 0, FALSE)
            /\ UNCHANGED cur
    /\ fb' = [fb EXCEPT ![r] =
                 IF TransitionAllowed(bk, r, "failed") THEN @ ELSE "threw"]
    /\ UNCHANGED <<now, body, bk, created, events, apiVars, tokens, tx, herr,
                   notifyVars, retryVars, otherVars>>

\* db.js:697-707 under part_025:649-657
Fail2Write(r) ==
    /\ pc[r] = "fail2_write"
    /\ bk' = ApplyUpdate(bk, r, failedRow(bk[r], "UNEXPECTED_ERROR"), now).table
    /\ Respond(r, 500, 0, FALSE)
    /\ cur' = [cur EXCEPT ![r] = "none"]
    /\ fb' = [fb EXCEPT ![r] = "ok"]
    /\ UNCHANGED <<now, body, created, events, apiVars, tokens, tx, herr,
                   notifyVars, retryVars, otherVars>>

\* part_025:649-657  the catch-all failBooking throws a storage error: the
\* exception is logged and swallowed, the answer is 500
Fail2Error(r) ==
    /\ pc[r] \in {"fail2_read", "fail2_write"}
    /\ Respond(r, 500, 0, FALSE)
    /\ cur' = [cur EXCEPT ![r] = "none"]
    /\ fb' = [fb EXCEPT ![r] = "threw"]
    /\ UNCHANGED <<now, body, bk, created, events, apiVars, tokens, tx, herr,
                   notifyVars, retryVars, otherVars>>

\* ------------------------------ createBookingFlow: intake and credentials

\* part_025:221-226  getBusinessById; an unknown business answers 404
GetBusiness(r) ==
    /\ pc[r] = "start"
    /\ IF body[r].businessId # "" /\ body[r].businessId # Business.id
       THEN Respond(r, 404, 0, FALSE)
       ELSE Goto(r, "validate")
    /\ UNCHANGED <<now, body, bk, cur, created, events, apiVars, sideVars>>

\* The validation of a flow that sweeps the expired holds first.
ValidateAfterSweep(r) ==
    /\ pc[r] = "validate"
    /\ bk' = cleanupExpiredHolds(bk, now)
    /\ IF validateAndBuildSchedule(body[r]) # {}
          \/ validateBookingTimeWindow(body[r], now) # {}
       THEN Respond(r, 400, 0, FALSE)
       ELSE Goto(r, "cleanup")
    /\ UNCHANGED <<now, body, cur, created, events, apiVars, sideVars>>

\* part_025:228-250  getEffectiveBusinessProfile, validateAndBuildSchedule,
\* validateBookingTimeWindow; either failure answers 400
Validate(r) ==
    /\ pc[r] = "validate"
    /\ IF validateAndBuildSchedule(body[r]) # {}
          \/ validateBookingTimeWindow(body[r], now) # {}
       THEN Respond(r, 400, 0, FALSE)
       ELSE Goto(r, "cleanup")
    /\ UNCHANGED <<now, body, bk, cur, created, events, apiVars, sideVars>>

\* part_025:304-312  loading the tokens throws: 403
LoadTokensError(r) ==
    /\ pc[r] = "freebusy"
    /\ ~loadTokensIntoClientForBusiness(tokens)
    /\ Respond(r, 403, 0, FALSE)
    /\ UNCHANGED <<now, body, bk, cur, created, events, apiVars, sideVars>>

\* ---------------------------- createBookingFlow: the hold transaction

\* No request holds the writer lock of the database.
WriterFree == \A o \in Req : tx[o] # "open"

\* A freebusy call made with the write transaction already open.
HoldBeginBeforeFreeBusy(r) ==
    /\ pc[r] \in {"freebusy", "hold"}
    /\ tx[r] = "none"
    /\ WriterFree
    /\ tx' = [tx EXCEPT ![r] = "open"]
    /\ UNCHANGED <<now, body, bk, pc, cur, created, result, events, apiVars,
                   tokens, herr, fb, notifyVars, retryVars, otherVars>>

\* part_025:346-348  beginImmediateTransaction; txOpen = true
HoldBegin(r) ==
    /\ pc[r] = "hold"
    /\ tx[r] = "none"
    /\ WriterFree
    /\ tx' = [tx EXCEPT ![r] = "open"]
    /\ UNCHANGED <<now, body, bk, pc, cur, created, result, events, apiVars,
                   tokens, herr, fb, notifyVars, retryVars, otherVars>>

\* The unique indexes that reject the INSERT of the hold row of r.
ViolatedIndexes(t, r, at) ==
    LET ins == [t EXCEPT ![r] =
                   [status |-> "pending", hold |-> at + HoldMinutes,
                    event |-> NULL, reason |-> "none"]]
    IN  (IF uniq_bookings_active_idempotency_key(ins, r, at)
         THEN {} ELSE {"uniq_bookings_active_idempotency_key"})
        \cup (IF uniq_bookings_active_slot_key(ins, r, at)
              THEN {} ELSE {"uniq_bookings_active_slot_key"})

\* A catch that maps the error and forgets the rollback.
HoldConstraintNoRollback(r) ==
    /\ pc[r] = "hold"
    /\ tx[r] = "open"
    /\ \E index \in ViolatedIndexes(bk, r, now) :
          /\ herr' = [herr EXCEPT ![r] = index]
          /\ IF index = "uniq_bookings_active_idempotency_key"
             THEN Goto(r, "relookup")
             ELSE Respond(r, 409, 0, FALSE)
    /\ UNCHANGED <<now, body, bk, cur, created, events, apiVars, tokens, tx, fb,
                   notifyVars, retryVars, otherVars>>

\* part_025:375-405  the INSERT of the hold row is rejected by a unique
\* index (the writer lost the race after its overlap check): rollback, then
\* the index named in the error decides between the re-lookup and 409
HoldConstraint(r) ==
    /\ pc[r] = "hold"
    /\ tx[r] = "open"
    /\ \E index \in ViolatedIndexes(bk, r, now) :
          /\ herr' = [herr EXCEPT ![r] = index]
          /\ IF index = "uniq_bookings_active_idempotency_key"
             THEN Goto(r, "relookup")
             ELSE Respond(r, 409, 0, FALSE)
    /\ tx' = [tx EXCEPT ![r] = "rolledback"]
    /\ UNCHANGED <<now, body, bk, cur, created, events, apiVars, tokens, fb,
                   notifyVars, retryVars, otherVars>>

\* part_025:383-398  getBookingByIdempotencyKey after the rollback
Relookup(r) ==
    /\ pc[r] = "relookup"
    /\ LET again == getBookingByIdempotencyKey(bk, buildBookingIdempotencyKey(body[r]))
       IN IF again = {}
          THEN Respond(r, 409, 0, FALSE)
          ELSE \E e \in again :
                  IF bk[e].status = "confirmed"
                  THEN Respond(r, 200, e, FALSE)
                  ELSE Respond(r, 202, e, FALSE)
    /\ UNCHANGED <<now, body, bk, cur, created, events, apiVars, sideVars>>

\* -------------------------------- the detached SMS and emergency chains

\* part_025:560-570  logSmsAttempt, status "queued"
SmsLogQueued(r) ==
    /\ sms[r].pc = "log_queued"
    /\ sms' = [sms EXCEPT ![r].logs = @ \cup {"queued"}, ![r].pc = "send"]
    /\ UNCHANGED <<flowVars, bk, events, apiVars, tokens, tx, herr, fb, em, retryVars, otherVars>>

\* part_025:572-573 with part_008:85-110  sendBookingConfirmation never
\* throws: it answers ok or not ok
SmsSend(r) ==
    /\ sms[r].pc = "send"
    /\ \E ok \in BOOLEAN :
          sms' = [sms EXCEPT ![r].sent = IF ok THEN "sent" ELSE "failed",
                             ![r].pc = "log_result"]
    /\ UNCHANGED <<flowVars, bk, events, apiVars, tokens, tx, herr, fb, em, retryVars, otherVars>>

\* part_025:575-585  logSmsAttempt, status "sent" or "failed"
SmsLogResult(r) ==
    /\ sms[r].pc = "log_result"
    /\ sms' = [sms EXCEPT ![r].logs = @ \cup {sms[r].sent},
                          ![r].pc = IF sms[r].sent = "failed" THEN "enqueue"
                                                             ELSE "done"]
    /\ UNCHANGED <<flowVars, bk, events, apiVars, tokens, tx, herr, fb, em, retryVars, otherVars>>

\* part_025:587-597 with db.js:952-983  enqueueRetry, kind twilio_sms
SmsEnqueue(r) ==
    /\ sms[r].pc = "enqueue"
    /\ sms' = [sms EXCEPT
                  ![r].tasks = @ \cup {smsRetryTask(r, confirmationMessage(r))},
                  ![r].pc = "done"]
    /\ UNCHANGED <<flowVars, bk, events, apiVars, tokens, tx, herr, fb, em, retryVars, otherVars>>

\* A chain whose exception reaches the catch of createBookingFlow.
SmsWriteErrorInFlow(r) ==
    /\ sms[r].pc \in {"log_queued", "log_result", "enqueue"}
    /\ sms' = [sms EXCEPT ![r].threw = TRUE, ![r].pc = "done"]
    /\ pc' = [pc EXCEPT ![r] = "fail2_read"]
    /\ UNCHANGED <<now, body, cur, created, result, bk, events, apiVars,
                   tokens, tx, herr, fb, em, retryVars, otherVars>>

\* part_025:600-603  logSmsAttempt or enqueueRetry throws: the catch of
\* the chain logs "SMS flow failed" and the chain ends
SmsWriteError(r) ==
    /\ sms[r].pc \in {"log_queued", "log_result", "enqueue"}
    /\ sms' = [sms EXCEPT ![r].threw = TRUE, ![r].pc = "done"]
    /\ UNCHANGED <<flowVars, bk, events, apiVars, tokens, tx, herr, fb, em, retryVars, otherVars>>

\* part_025:607-625  handleEmergencyFn is called once; it resolves with or
\* without an escalation, or throws into the catch of the chain
EmergencyRun(r) ==
    /\ em[r].pc = "scheduled"
    /\ \E outcome \in {"escalated", "not_escalated", "threw"} :
          em' = [em EXCEPT ![r].calls = @ + 1, ![r].outcome = outcome,
                           ![r].pc = "done"]
    /\ UNCHANGED <<flowVars, bk, events, apiVars, tokens, tx, herr, fb, sms, retryVars, otherVars>>

\* ------------------------------------------------------------------ time

\* The clock advances; only the comparison with a hold's expiry
\* (part_025:357, now + 5 minutes) is observable, so it advances by that.
Tick ==
    /\ now + HoldMinutes <= MaxTime
    /\ now' = now + HoldMinutes
    /\ UNCHANGED <<body, bk, pc, cur, created, result, events, apiVars, sideVars>>

\* ------------------------------ ledger API called outside createBooking

ApiKinds == {"confirm", "fail", "cancel"}
ApiTarget(kind) ==
    CASE kind = "confirm" -> "confirmed"
      [] kind = "fail" -> "failed"
      [] kind = "cancel" -> "cancelled"
      [] kind = "retry" -> "confirmed"

\* db.js:659-695  confirmBooking / failBooking / cancelBooking: the read
\* and the transition check of updateBookingStatus
ApiRead(b, kind) ==
    /\ apc = "idle"
    /\ acalls < MaxApiCalls
    /\ acalls' = acalls + 1
    /\ Exists(bk, b)
    /\ aop' = [kind |-> kind, b |-> b, snap |-> bk[b].status]
    /\ IF TransitionAllowed(bk, b, ApiTarget(kind))
       THEN /\ aerr' = "none"
            /\ apc' = "write"
       ELSE /\ aerr' = "INVALID_STATUS_TRANSITION"
            /\ apc' = "idle"
    /\ UNCHANGED <<flowVars, sideVars, bk, events>>

\* part_020:45-49  the fields the gcal_create executor writes
retryConfirmedRow(row, gcalEventId) ==
    [row EXCEPT !.status = "confirmed", !.event = gcalEventId, !.reason = "none"]

RetryInserted(b) == { n \in 1..MaxRetryInserts : RetryEvent(b, n) \in events }

ApiRow(kind, row, b) ==
    CASE kind = "confirm" -> confirmedRow(row, NULL)
      [] kind = "fail" -> failedRow(row, "API")
      [] kind = "cancel" -> cancelledRow(row)
      [] kind = "retry" ->
            retryConfirmedRow(row, EventId(b, 2 + Cardinality(RetryInserted(b))))

\* db.js:697-707  the UPDATE of updateBookingStatus
ApiWrite ==
    /\ apc = "write"
    /\ LET upd == ApplyUpdate(bk, aop.b, ApiRow(aop.kind, bk[aop.b], aop.b), now)
       IN  /\ bk' = upd.table
           /\ aerr' = IF upd.ok THEN "none" ELSE "SQLITE_CONSTRAINT"
    /\ apc' = "idle"
    /\ UNCHANGED <<flowVars, sideVars, events, aop, acalls>>

\* ------------------------------------- retry worker, kind gcal_create

\* part_020:27-29  executeRetry reads the booking of a due gcal_create task
RetryRead(b) ==
    /\ apc = "idle"
    /\ acalls < MaxApiCalls
    /\ acalls' = acalls + 1
    /\ Exists(bk, b)
    /\ Cardinality(RetryInserted(b)) < MaxRetryInserts
    /\ apc' = "retry_insert"
    /\ aop' = [kind |-> "retry", b |-> b, snap |-> bk[b].status]
    /\ aerr' = "none"
    /\ UNCHANGED <<flowVars, sideVars, bk, events>>

\* part_020:31-50  events.insert, then updateBookingStatus if the booking
\* was failed when it was read
RetryInsert ==
    /\ apc = "retry_insert"
    /\ events' = events \cup {RetryEvent(aop.b, Cardinality(RetryInserted(aop.b)) + 1)}
    /\ apc' = IF aop.snap = "failed" THEN "retry_update" ELSE "idle"
    /\ UNCHANGED <<flowVars, sideVars, bk, aop, aerr, acalls>>

\* part_020:45-50 with db.js:684-695
RetryUpdateRead ==
    /\ apc = "retry_update"
    /\ aop' = [aop EXCEPT !.snap = bk[aop.b].status]
    /\ IF TransitionAllowed(bk, aop.b, "confirmed")
       THEN /\ apc' = "write"
            /\ UNCHANGED aerr
       ELSE /\ apc' = "idle"
            /\ aerr' = "INVALID_STATUS_TRANSITION"
    /\ UNCHANGED <<flowVars, sideVars, bk, events, acalls>>

\* ------------------------------------------------------------------ Next

Next ==
    \/ \E r \in Req : Cleanup(r)
    \/ \E r \in Req : Lookup(r)
    \/ \E r \in Req : FreeBusy(r)
    \/ \E r \in Req : FreeBusyError(r)
    \/ \E r \in Req : HoldTx(r)
    \/ \E r \in Req : HoldTxError(r)
    \/ \E r \in Req : Insert1Ok(r)
    \/ \E r \in Req : Insert1Transient(r)
    \/ \E r \in Req : Insert1Fatal(r)
    \/ \E r \in Req : ListEvents(r)
    \/ \E r \in Req : ListEventsError(r)
    \/ \E r \in Req : Insert2Ok(r)
    \/ \E r \in Req : Insert2Error(r)
    \/ \E r \in Req : ConfirmRead(r)
    \/ \E r \in Req : ConfirmWrite(r)
    \/ \E r \in Req : Fail1Read(r)
    \/ \E r \in Req : Fail1Write(r)
    \/ \E r \in Req : Fail2Read(r)
    \/ \E r \in Req : Fail2Write(r)
    \/ \E r \in Req : Fail1Error(r)
    \/ \E r \in Req : Fail2Error(r)
    \/ Tick
    \/ \E b \in Req, k \in ApiKinds : ApiRead(b, k)
    \/ ApiWrite
    \/ \E b \in Req : RetryRead(b)
    \/ RetryInsert
    \/ RetryUpdateRead

Spec == Init /\ [][Next]_vars

\* Concurrent requests against a free calendar that accepts every insert:
\* no calendar fault, no storage fault, no caller other than the requests.
NextRequests ==
    \/ \E r \in Req : Cleanup(r)
    \/ \E r \in Req : Lookup(r)
    \/ \E r \in Req : FreeBusy(r)
    \/ \E r \in Req : HoldTx(r)
    \/ \E r \in Req : Insert1Ok(r)
    \/ \E r \in Req : ConfirmRead(r)
    \/ \E r \in Req : ConfirmWrite(r)
    \/ \E r \in Req : Fail2Read(r)
    \/ Tick

SpecRequests == Init /\ [][NextRequests]_vars

\* ------------------------------------------- the whole createBookingFlow

\* Request bodies as they arrive: the plain ones, the three ways of being
\* an emergency, a Saturday morning, and the invalid ones.
FlowBodies ==
    { FirstBody,
      [FirstBody EXCEPT !.service = "emergency"],
      PlainBody(22 * 60, 60, 0, PhoneB),
      [PlainBody(660, 60, 0, PhoneB) EXCEPT !.emergencyFlag = TRUE],
      PlainBody(5 * MinutesPerDay + 600, 60, 0, PhoneB),
      [FirstBody EXCEPT !.businessId = "ghost"],
      [FirstBody EXCEPT !.businessId = ""],
      [FirstBody EXCEPT !.start = NULL],
      PlainBody(600, 0, 0, PhoneA),
      PlainBody(600, 8 * 60 + 1, 0, PhoneA),
      PlainBody(600, 60, 24 * 60 + 1, PhoneA),
      PlainBody(30, 60, 0, PhoneA),
      PlainBody(15 * MinutesPerDay, 60, 0, PhoneA) }

InitFlow ==
    /\ now = 0
    /\ body \in [Req -> FlowBodies]
    /\ bk = [r \in Req |-> NoRow]
    /\ pc = [r \in Req |-> "start"]
    /\ cur = [r \in Req |-> "none"]
    /\ created = [r \in Req |-> NULL]
    /\ result = [r \in Req |-> NoResult]
    /\ events = {}
    /\ apc = "idle"
    /\ aop = [kind |-> "none", b |-> 0, snap |-> "none"]
    /\ aerr = "none"
    /\ acalls = 0
    /\ tokens \in BOOLEAN
    /\ tx = [r \in Req |-> "none"]
    /\ herr = [r \in Req |-> "none"]
    /\ fb = [r \in Req |-> "none"]
    /\ sms = [r \in Req |-> NoSms]
    /\ em = [r \in Req |-> NoEm]
    /\ rt = NoTask
    /\ rnow = 0
    /\ OtherIdle

\* createBookingFlow from the arrival of the request to the end of its
\* detached chains, the hold transaction in its three steps; a statement
\* that writes the ledger waits for the writer lock.
NextFlow ==
    \/ \E r \in Req : GetBusiness(r)
    \/ \E r \in Req : Validate(r)
    \/ \E r \in Req : WriterFree /\ Cleanup(r)
    \/ \E r \in Req : Lookup(r)
    \/ \E r \in Req : LoadTokensError(r)
    \/ \E r \in Req : FreeBusy(r)
    \/ \E r \in Req : FreeBusyError(r)
    \/ \E r \in Req : HoldBegin(r)
    \/ \E r \in Req : tx[r] = "open" /\ HoldTx(r)
    \/ \E r \in Req : HoldConstraint(r)
    \/ \E r \in Req : Relookup(r)
    \/ \E r \in Req : HoldTxError(r)
    \/ \E r \in Req : Insert1Ok(r)
    \/ \E r \in Req : Insert1Fatal(r)
    \/ \E r \in Req : ConfirmRead(r)
    \/ \E r \in Req : WriterFree /\ ConfirmWrite(r)
    \/ \E r \in Req : Fail1Read(r)
    \/ \E r \in Req : WriterFree /\ Fail1Write(r)
    \/ \E r \in Req : Fail2Read(r)
    \/ \E r \in Req : WriterFree /\ Fail2Write(r)
    \/ \E r \in Req : Fail1Error(r)
    \/ \E r \in Req : Fail2Error(r)
    \/ \E r \in Req : SmsLogQueued(r)
    \/ \E r \in Req : SmsSend(r)
    \/ \E r \in Req : SmsLogResult(r)
    \/ \E r \in Req : SmsEnqueue(r)
    \/ \E r \in Req : SmsWriteError(r)
    \/ \E r \in Req : EmergencyRun(r)
    \/ Tick

SpecFlow == InitFlow /\ [][NextFlow]_vars

\* Every await of a handler settles (the external calls run under
\* timeouts), so a request in progress takes its next step.
SpecFlowFair == SpecFlow /\ WF_vars(NextFlow)

\* ---------------------------------------------------- what the claims use

\* The claims' own reading of "same request", "same slot" and "active",
\* stated on the request bodies and rows.
ClaimKey(b) == <<b.start, b.duration, normalizePhoneDigits(b.phone)>>

ClaimActive(r) ==
    \/ bk[r].status = "confirmed"
    \/ bk[r].status = "pending" /\ bk[r].hold > now

ClaimAllowed ==
    { <<"pending", "confirmed">>, <<"pending", "failed">>,
      <<"pending", "cancelled">>, <<"confirmed", "cancelled">> }

AllDone == \A r \in Req : pc[r] = "done"
AllIdentical == \A r \in Req : body[r] = body[1]

\* Exactly one request answered 200 as the confirmer; every other answered
\* 200 with the confirmer's bookingId, 202 or 409.
OneConfirmerRestReplay ==
    \E w \in Req :
        /\ result[w] = [status |-> 200, bookingId |-> w, confirmer |-> TRUE]
        /\ \A o \in Req \ {w} :
              /\ ~result[o].confirmer
              /\ \/ result[o].status = 200 /\ result[o].bookingId = w
                 \/ result[o].status = 202
                 \/ result[o].status = 409

\* ----------------------------------------------------------------- C1

AtMostOneActivePerSlot ==
    \A r, o \in Req :
        (r # o /\ ClaimActive(r) /\ ClaimActive(o))
            => body[r].start # body[o].start

\* Two bookings of one slot, one confirmed after the other's hold lapsed.
AtMostOneActivePerSlotWitness ==
    \E r, o \in Req :
        /\ r # o
        /\ body[r].start = body[o].start
        /\ bk[r].status = "confirmed"
        /\ bk[o].status = "cancelled"
        /\ result[r].confirmer

\* ----------------------------------------------------------------- C3

\* C3: any two distinct active bookings of the business have buffer-expanded
\* windows that do not strictly overlap.
NoActiveOverlap ==
    \A r, o \in Req :
        (r # o /\ ClaimActive(r) /\ ClaimActive(o))
            => ~ ( /\ body[r].start - body[r].buffer
                        < body[o].start + body[o].duration + body[o].buffer
                   /\ body[o].start - body[o].buffer
                        < body[r].start + body[r].duration + body[r].buffer )

\* ----------------------------------------------------------------- C4

\* C4: at most one active booking exists per idempotency key (business,
\* start, duration, phone digits).
AtMostOneActivePerKey ==
    \A r, o \in Req :
        (r # o /\ ClaimActive(r) /\ ClaimActive(o))
            => ClaimKey(body[r]) # ClaimKey(body[o])

\* Two bookings with one key, typed with differently formatted phones: one
\* confirmed, the other no longer active.
AtMostOneActivePerKeyWitness ==
    \E r, o \in Req :
        /\ r # o
        /\ ClaimKey(body[r]) = ClaimKey(body[o])
        /\ body[r].phone # body[o].phone
        /\ bk[r].status = "confirmed"
        /\ bk[o].status \in {"cancelled", "failed"}

\* ----------------------------------------------------------------- C5

\* C5: for every confirmed booking the external calendar holds at most one
\* event whose private idempotency key equals the booking's key.
AtMostOneEventPerConfirmed ==
    \A r \in Req :
        bk[r].status = "confirmed"
            => Cardinality({ e \in events :
                               e.key = buildBookingIdempotencyKey(body[r]) }) <= 1

\* ----------------------------------------------------------------- C6

\* The transition the ledger caller's updateBookingStatus was asked for:
\* from the status it read to the status of its call.
RequestedTransition == <<aop.snap, ApiTarget(aop.kind)>>

\* A call goes on to its UPDATE only with a transition of the table, and
\* reports INVALID_STATUS_TRANSITION only for one outside it.
CheckedAgainstTable ==
    /\ apc = "write" => RequestedTransition \in ClaimAllowed
    /\ aerr = "INVALID_STATUS_TRANSITION" => RequestedTransition \notin ClaimAllowed
    /\ \A r \in Req :
          /\ pc[r] = "confirm_write" => <<cur[r], "confirmed">> \in ClaimAllowed
          /\ pc[r] \in {"fail1_write", "fail2_write"}
                => <<cur[r], "failed">> \in ClaimAllowed

\* One step of a call: a request outside the table is refused with
\* INVALID_STATUS_TRANSITION and changes no row; a request inside it goes on
\* to the UPDATE, which sets the requested status on that row alone.
UpdateStatusStep ==
    /\ (acalls' # acalls /\ aop'.kind \in ApiKinds) =>
          IF <<bk[aop'.b].status, ApiTarget(aop'.kind)>> \in ClaimAllowed
          THEN apc' = "write" /\ aerr' = "none" /\ bk' = bk
          ELSE apc' = "idle" /\ aerr' = "INVALID_STATUS_TRANSITION" /\ bk' = bk
    /\ (apc = "write" /\ apc' = "idle" /\ aerr' = "none") =>
          /\ bk'[aop.b].status = ApiTarget(aop.kind)
          /\ \A o \in Req \ {aop.b} : bk'[o] = bk[o]
    /\ \A r \in Req :
          (pc[r] = "confirm_read" /\ pc'[r] # "confirm_read") =>
              /\ bk' = bk
              /\ (pc'[r] = "confirm_write")
                    <=> (<<bk[r].status, "confirmed">> \in ClaimAllowed)

StatusSequenceFollowsTable ==
    [][\A r \in Req :
          (bk[r].status # "none" /\ bk'[r].status # bk[r].status)
              => <<bk[r].status, bk'[r].status>> \in ClaimAllowed]_vars

\* ----------------------------------------------------------------- C8

\* C8: a booking's hold-expires is non-null exactly when its status is
\* pending.
HoldExpiresIffPending ==
    \A r \in Req :
        bk[r].status # "none"
            => ((bk[r].hold # NULL) <=> (bk[r].status = "pending"))

\* ----------------------------------------------------------------- C9

\* The bookings in the ledger with status st and the key of request r.
SameKeyRows(r, st) ==
    { o \in Req \ {r} : /\ bk[o].status = st
                        /\ ClaimKey(body[o]) = ClaimKey(body[r]) }

\* The idempotency lookup of request r answers.
ResubmitStep(r) ==
    (pc[r] = "lookup" /\ pc'[r] # "lookup") =>
        /\ (SameKeyRows(r, "confirmed") # {} /\ SameKeyRows(r, "pending") = {})
              => /\ result'[r].status = 200
                 /\ result'[r].bookingId \in SameKeyRows(r, "confirmed")
                 /\ ~result'[r].confirmer
        /\ (SameKeyRows(r, "pending") # {} /\ SameKeyRows(r, "confirmed") = {})
              => /\ result'[r].status = 202
                 /\ result'[r].bookingId \in SameKeyRows(r, "pending")
        /\ (SameKeyRows(r, "confirmed") \cup SameKeyRows(r, "pending") # {})
              => /\ pc'[r] = "done"
                 /\ bk' = bk
                 /\ events' = events

\* A request answered from the lookup has no row of its own.
ReplayHasNoRow ==
    \A r \in Req :
        (result[r].status \in {200, 202} /\ ~result[r].confirmer)
            => bk[r].status = "none"

\* C9: a request whose idempotency key matches a confirmed booking gets 200
\* with the original bookingId, one whose key matches a still-pending
\* booking gets 202, and in both cases no new row is created.
ResubmitAnsweredFromLedger ==
    []ReplayHasNoRow /\ [][\A r \in Req : ResubmitStep(r)]_vars

\* A resubmission typed with a differently formatted phone was answered 200
\* with the id of the confirmed booking.
ResubmitWitness ==
    \E r \in Req :
        /\ result[r].status = 200
        /\ ~result[r].confirmer
        /\ result[r].bookingId \in Req \ {r}
        /\ bk[result[r].bookingId].status = "confirmed"
        /\ body[result[r].bookingId].phone # body[r].phone
        /\ bk[r].status = "none"

\* ---------------------------------------------------------------- C10

\* The calendar holds an event that intersects the slot of request r.
ClaimBusy(r) ==
    \E e \in events :
        /\ e.start < body[r].start + body[r].duration
        /\ e.end > body[r].start

\* The freebusy of request r answers with a busy interval.
FreeBusyStep(r) ==
    (/\ pc[r] = "freebusy"
     /\ pc'[r] # "freebusy"
     /\ ClaimBusy(r)
     /\ result'[r].status # 500) =>
        /\ result'[r].status = 409
        /\ pc'[r] = "done"
        /\ bk' = bk
        /\ events' = events

\* After a 409 the request has no row, pending or confirmed, and none of
\* its two event inserts was attempted.
ConflictLeavesNothing ==
    \A r \in Req :
        result[r].status = 409 =>
            /\ pc[r] = "done"
            /\ bk[r].status = "none"
            /\ created[r] = NULL
            /\ \A e \in events : e.id \notin {EventId(r, 1), EventId(r, 2)}

\* C10: when freebusy returns a busy interval the request is answered 409
\* SLOT_ALREADY_BOOKED, no pending row for it persists, no event insert is
\* attempted and no booking is confirmed.
BusySlotRejected ==
    []ConflictLeavesNothing /\ [][\A r \in Req : FreeBusyStep(r)]_vars

\* A request was answered 409 while the calendar was busy in its slot and
\* no booking in the ledger was active.
BusySlotWitness ==
    \E r \in Req :
        /\ result[r].status = 409
        /\ ClaimBusy(r)
        /\ bk[r].status = "none"
        /\ \A o \in Req \ {r} : bk[o].status = "failed"

\* ----------------------------------------- retry worker: attempt accounting

\* server.js:930-931  the worker runs every 15 seconds
TickSeconds == 15

RECURSIVE PowerOfTwo(_)
PowerOfTwo(n) == IF n = 0 THEN 1 ELSE 2 * PowerOfTwo(n - 1)

\* A backoff that doubles from the first attempt on.
computeDelayDoubledEarly(attemptCount) ==
    Min(30 * PowerOfTwo(Max(0, attemptCount)), 30 * 60)

\* part_020:5-9
computeDelaySeconds(attemptCount) ==
    Min(30 * PowerOfTwo(Max(0, attemptCount - 1)), 30 * 60)

\* part_020:11-13
toIsoAfter(seconds) == rnow + seconds

\* db.js:985-997  listDueRetries: the task is pending and due
Due == rt.status = "pending" /\ rt.next_attempt_at_utc <= rnow

restVarsW == <<flowVars, bk, events, apiVars, tokens, tx, herr, fb, notifyVars,
               oauthVars, vaultVars, win, busy, mig, boot, lateVars>>
restVars == <<restVarsW, otherVars>>

\* db.js:952-983  enqueueRetry
EnqueueRetry(maxAttempts) ==
    /\ rt = NoTask
    /\ rt' = [status |-> "pending", attempt_count |-> 0,
              max_attempts |-> maxAttempts, next_attempt_at_utc |-> rnow]
    /\ UNCHANGED <<rnow, restVars>>

\* part_020:76-87 with db.js:999-1015  the executor succeeds
RetrySucceeds ==
    /\ Due
    /\ rt' = [rt EXCEPT !.attempt_count = rt.attempt_count + 1,
                        !.status = "succeeded"]
    /\ UNCHANGED <<rnow, restVars>>

\* part_020:76-101 with db.js:999-1015  the executor throws
RetryFails ==
    /\ Due
    /\ LET attemptCount == rt.attempt_count + 1
           maxAttempts == IF rt.max_attempts = 0 THEN 5 ELSE rt.max_attempts
           exhausted == attemptCount >= maxAttempts
       IN  rt' = [rt EXCEPT
                    !.attempt_count = attemptCount,
                    !.next_attempt_at_utc =
                        IF exhausted THEN rt.next_attempt_at_utc
                        ELSE toIsoAfter(computeDelaySeconds(attemptCount)),
                    !.status = IF exhausted THEN "failed" ELSE "pending"]
    /\ UNCHANGED <<rnow, restVars>>

\* server.js:930-931  time passes until a run of the worker finds the task
\* due: the first run after it became due, or the one after that
WorkerWaits ==
    /\ rt.status = "pending"
    /\ rt.next_attempt_at_utc > rnow
    /\ \E late \in {0, TickSeconds} : rnow' = rt.next_attempt_at_utc + late
    /\ UNCHANGED <<rt, restVars>>

InitRetry ==
    /\ now = 0
    /\ body = [r \in Req |-> FirstBody]
    /\ bk = [r \in Req |-> NoRow]
    /\ pc = [r \in Req |-> "done"]
    /\ cur = [r \in Req |-> "none"]
    /\ created = [r \in Req |-> NULL]
    /\ result = [r \in Req |-> NoResult]
    /\ events = {}
    /\ apc = "idle"
    /\ aop = [kind |-> "none", b |-> 0, snap |-> "none"]
    /\ aerr = "none"
    /\ acalls = 0
    /\ tokens = TRUE
    /\ tx = [r \in Req |-> "none"]
    /\ herr = [r \in Req |-> "none"]
    /\ fb = [r \in Req |-> "none"]
    /\ sms = [r \in Req |-> NoSms]
    /\ em = [r \in Req |-> NoEm]
    /\ rt = NoTask
    /\ rnow = 0
    /\ OtherIdle

NextRetry ==
    \/ \E maxAttempts \in 1..MaxAttemptsBound : EnqueueRetry(maxAttempts)
    \/ RetrySucceeds
    \/ RetryFails
    \/ WorkerWaits

SpecRetry == InitRetry /\ [][NextRetry]_vars

\* ------------------------------ runRetriesOnce, one step for each await
\* Runs can overlap: setInterval starts one every TickSeconds whether or
\* not the previous one has returned (server.js:930-934).

\* part_020:74 with db.js:985-997  the run reads the due tasks; a run that
\* starts while another is in progress starts a tick later
ListDue(w) ==
    /\ wk[w].pc = "idle"
    /\ Due
    /\ \A o \in Run : wk[o].pc # "idle" => rnow >= wk[o].at + TickSeconds
    /\ wk' = [wk EXCEPT ![w] = [pc |-> "listed", retry |-> rt, at |-> rnow]]
    /\ UNCHANGED <<rt, rnow, applied, restVarsW>>

\* part_020:81  executeRetry returns: the SMS is sent, the event inserted
\* or deleted
Execute(w) ==
    /\ wk[w].pc = "listed"
    /\ applied < MaxApplied
    /\ applied' = applied + 1
    /\ wk' = [wk EXCEPT ![w].pc = "executed"]
    /\ UNCHANGED <<rt, rnow, restVarsW>>

\* part_020:81, 88  executeRetry throws before its external call took effect
ExecuteThrows(w) ==
    /\ wk[w].pc = "listed"
    /\ wk' = [wk EXCEPT ![w].pc = "caught"]
    /\ UNCHANGED <<rt, rnow, applied, restVarsW>>

\* part_020:77, 89-99  the row markRetryAttempt writes after a failure
failedAttempt(retry) ==
    LET attemptCount == retry.attempt_count + 1
        maxAttempts == IF retry.max_attempts = 0 THEN 5 ELSE retry.max_attempts
        exhausted == attemptCount >= maxAttempts
    IN  [retry EXCEPT
            !.attempt_count = attemptCount,
            !.next_attempt_at_utc =
                IF exhausted THEN retry.next_attempt_at_utc
                ELSE toIsoAfter(computeDelaySeconds(attemptCount)),
            !.status = IF exhausted THEN "failed" ELSE "pending"]

\* part_020:82-87 with db.js:999-1015  UPDATE retries ... WHERE id = ?
MarkSucceeded(w) ==
    /\ wk[w].pc = "executed"
    /\ rt' = [wk[w].retry EXCEPT
                !.attempt_count = wk[w].retry.attempt_count + 1,
                !.status = "succeeded"]
    /\ wk' = [wk EXCEPT ![w].pc = "idle"]
    /\ UNCHANGED <<rnow, applied, restVarsW>>

\* part_020:82, 88  the write of the success throws: the catch takes over
MarkSucceededThrows(w) ==
    /\ wk[w].pc = "executed"
    /\ wk' = [wk EXCEPT ![w].pc = "caught"]
    /\ UNCHANGED <<rt, rnow, applied, restVarsW>>

\* part_020:88-100 with db.js:999-1015
MarkFailed(w) ==
    /\ wk[w].pc = "caught"
    /\ rt' = failedAttempt(wk[w].retry)
    /\ wk' = [wk EXCEPT ![w].pc = "idle"]
    /\ UNCHANGED <<rnow, applied, restVarsW>>

\* part_020:92, 103-105  the write of the failure throws: the run ends
MarkFailedThrows(w) ==
    /\ wk[w].pc = "caught"
    /\ wk' = [wk EXCEPT ![w].pc = "idle"]
    /\ UNCHANGED <<rt, rnow, applied, restVarsW>>

\* A run in progress takes longer than the ticker's period.
RunIsSlow ==
    /\ rnow < MaxClock
    /\ \E w \in Run : wk[w].pc # "idle" /\ rnow < wk[w].at + TickSeconds
    /\ rnow' = rnow + TickSeconds
    /\ UNCHANGED <<rt, wk, applied, restVarsW>>

NextWorker ==
    \/ \E maxAttempts \in 1..MaxRunAttempts : EnqueueRetry(maxAttempts)
    \/ rnow < MaxClock /\ WorkerWaits
    \/ RunIsSlow
    \/ \E w \in Run : ListDue(w)
    \/ \E w \in Run : Execute(w)
    \/ \E w \in Run : ExecuteThrows(w)
    \/ \E w \in Run : MarkSucceeded(w)
    \/ \E w \in Run : MarkSucceededThrows(w)
    \/ \E w \in Run : MarkFailed(w)
    \/ \E w \in Run : MarkFailedThrows(w)

SpecWorker == InitRetry /\ [][NextWorker]_vars

\* -------------------------------------------------- OAuth flow ledger
\* All statements go to the one sqlite3 connection the server opened
\* (server.js:907, migrate.js:8-10); each await lets another caller's
\* statement in.

\* Lifetime of a flow and of a signed state, seconds.
FlowTtlSec == 600

restVarsO == <<flowVars, bk, events, apiVars, tokens, tx, herr, fb, notifyVars,
               retryVars, workerVars, vaultVars, win, busy, mig, boot, lateVars>>

\* SQLite on one connection. BEGIN inside a transaction is an error; COMMIT
\* and ROLLBACK outside one are errors; a statement outside a transaction
\* is committed at once.
SqlBeginOk == ~conn.active
SqlBegin == [active |-> TRUE, saved |-> flows]
SqlEndOk == conn.active
SqlEnd == [active |-> FALSE, saved |-> {}]

\* db.js:812-830  createOAuthFlow; nonce is the primary key
createOAuthFlow(nonce, business_id, expires_at_utc) ==
    /\ \A f \in flows : f.nonce # nonce
    /\ flows' = flows \cup {[nonce |-> nonce, business_id |-> business_id,
                             code_verifier |-> <<"verifier", nonce>>,
                             expires_at_utc |-> expires_at_utc]}

\* The consent URL is requested: a flow is stored for a fresh nonce with
\* expires-at = created-at + 10 min; a nonce is never issued again.
StartFlow(nonce, business_id) ==
    /\ \A c \in Caller : cf[c].nonce # nonce
    /\ createOAuthFlow(nonce, business_id, onow + FlowTtlSec)
    /\ UNCHANGED <<conn, cf, onow, cb, gtok, restVarsO>>

\* db.js:833-837  consumeOAuthFlow is called
ConsumeCall(c, nonce) ==
    /\ cf[c].pc = "idle"
    /\ cb[c].pc = "idle"
    /\ cf' = [cf EXCEPT ![c] = [NoCall EXCEPT !.pc = "begin", !.nonce = nonce]]
    /\ UNCHANGED <<flows, conn, onow, cb, gtok, restVarsO>>

\* db.js:837  BEGIN IMMEDIATE
ConsumeBegin(c) ==
    /\ cf[c].pc = "begin"
    /\ IF SqlBeginOk
       THEN conn' = SqlBegin /\ cf' = [cf EXCEPT ![c].pc = "select"]
       ELSE conn' = conn /\ cf' = [cf EXCEPT ![c].pc = "catch"]
    /\ UNCHANGED <<flows, onow, cb, gtok, restVarsO>>

\* db.js:839-847  SELECT ... FROM oauth_flows WHERE nonce = ?
selectFlow(nonce) == {f \in flows : f.nonce = nonce}

\* db.js:839-849
ConsumeSelect(c) ==
    /\ cf[c].pc = "select"
    /\ LET rows == selectFlow(cf[c].nonce)
       IN  IF rows = {}
           THEN cf' = [cf EXCEPT ![c].pc = "rollback"]
           ELSE cf' = [cf EXCEPT ![c].pc = "delete",
                                 ![c].row = CHOOSE f \in rows : TRUE]
    /\ UNCHANGED <<flows, conn, onow, cb, gtok, restVarsO>>

\* db.js:849-852  no row: ROLLBACK, return null
ConsumeRollback(c) ==
    /\ cf[c].pc = "rollback"
    /\ IF SqlEndOk
       THEN /\ flows' = conn.saved
            /\ conn' = SqlEnd
            /\ cf' = [cf EXCEPT ![c].pc = "done", ![c].ret = "null",
                                ![c].at = onow]
       ELSE /\ cf' = [cf EXCEPT ![c].pc = "catch"]
            /\ UNCHANGED <<flows, conn>>
    /\ UNCHANGED <<onow, cb, gtok, restVarsO>>

\* db.js:854  DELETE FROM oauth_flows WHERE nonce = ?
ConsumeDelete(c) ==
    /\ cf[c].pc = "delete"
    /\ flows' = {f \in flows : f.nonce # cf[c].nonce}
    /\ cf' = [cf EXCEPT ![c].pc = "commit"]
    /\ UNCHANGED <<conn, onow, cb, gtok, restVarsO>>

\* db.js:856-857  COMMIT, return row
ConsumeCommit(c) ==
    /\ cf[c].pc = "commit"
    /\ IF SqlEndOk
       THEN /\ conn' = SqlEnd
            /\ cf' = [cf EXCEPT ![c].pc = "done", ![c].ret = "flow",
                                ![c].at = onow]
       ELSE /\ cf' = [cf EXCEPT ![c].pc = "catch"]
            /\ UNCHANGED conn
    /\ UNCHANGED <<flows, onow, cb, gtok, restVarsO>>

\* db.js:858-861  catch: ROLLBACK (its own error swallowed), rethrow
ConsumeCatch(c) ==
    /\ cf[c].pc = "catch"
    /\ IF SqlEndOk
       THEN flows' = conn.saved /\ conn' = SqlEnd
       ELSE UNCHANGED <<flows, conn>>
    /\ cf' = [cf EXCEPT ![c].pc = "done", ![c].ret = "threw", ![c].at = onow]
    /\ UNCHANGED <<onow, cb, gtok, restVarsO>>

\* Instants of the clock: the creation of the flow, the last second of its
\* life and the second after.
ClockInstants == {0, FlowTtlSec, FlowTtlSec + 1}

OAuthTick ==
    /\ \E t \in ClockInstants : t > onow /\ onow' = t
    /\ UNCHANGED <<flows, conn, cf, cb, gtok, restVarsO>>

InitConsume == InitRetry

NextConsume ==
    \/ StartFlow("n1", "biz")
    \/ OAuthTick
    \/ \E c \in Caller : ConsumeCall(c, "n1")
    \/ \E c \in Caller : ConsumeBegin(c)
    \/ \E c \in Caller : ConsumeSelect(c)
    \/ \E c \in Caller : ConsumeRollback(c)
    \/ \E c \in Caller : ConsumeDelete(c)
    \/ \E c \in Caller : ConsumeCommit(c)
    \/ \E c \in Caller : ConsumeCatch(c)

SpecConsume == InitConsume /\ [][NextConsume]_vars

\* ------------------------------------------ GET /auth/google/callback
\* A signed state is payload and signature; the signature is the HMAC of
\* the payload under a key, here the pair of the key and what was signed.
Hmac(key, payload) == <<key, payload>>

Payload(businessId, nonce, ts) == [businessId |-> businessId, nonce |-> nonce, ts |-> ts]

\* state.js:18-29  signOAuthState
signOAuthState(payload) == [payload |-> payload, sig |-> Hmac("OAUTH_STATE_SECRET", payload)]

\* The clock when the callbacks arrive: late enough for a state older
\* than the TTL to carry a timestamp.
CallbackNow == FlowTtlSec + 400

\* States a callback can be called with: the one the server issued for the
\* flow, states it would have signed at other times or for other
\* businesses and nonces, and forgeries.
GoodPayload == Payload("biz", "n1", CallbackNow)

States ==
    { signOAuthState(GoodPayload),
      signOAuthState(Payload("biz", "n1", CallbackNow + 60)),
      signOAuthState(Payload("biz", "n1", CallbackNow + 61)),
      signOAuthState(Payload("biz", "n1", CallbackNow - FlowTtlSec)),
      signOAuthState(Payload("biz", "n1", CallbackNow - FlowTtlSec - 1)),
      signOAuthState(Payload("biz", "n1", 0)),
      signOAuthState(Payload("other", "n1", CallbackNow)),
      signOAuthState(Payload("biz", "n0", CallbackNow)),
      signOAuthState(Payload("", "n1", CallbackNow)),
      signOAuthState(Payload("biz", "", CallbackNow)),
      [payload |-> GoodPayload, sig |-> Hmac("guess", GoodPayload)],
      [payload |-> Payload("other", "n1", CallbackNow),
       sig |-> Hmac("OAUTH_STATE_SECRET", GoodPayload)],
      [payload |-> GoodPayload, sig |-> <<>>] }

\* What a caller presents: one caller any of the states, the others the
\* issued state again or a forgery of it.
StatesOf(c) ==
    IF c = 1 THEN States
    ELSE { signOAuthState(GoodPayload),
           [payload |-> GoodPayload, sig |-> Hmac("guess", GoodPayload)] }

\* state.js:31-64  verifyOAuthState
verifyOAuthState(state) ==
    LET ts == state.payload.ts
        ageSec == onow - ts
    IN  IF state.sig = <<>> THEN "bad_format"
        ELSE IF state.sig # Hmac("OAUTH_STATE_SECRET", state.payload) THEN "bad_sig"
        ELSE IF ts = 0 THEN "missing_ts"
        ELSE IF ageSec < -60 THEN "ts_in_future"
        ELSE IF ageSec > FlowTtlSec THEN "expired"
        ELSE "ok"

\* server.js:436-457  the request arrives; everything up to the call of
\* consumeOAuthFlow
CallbackArrives(c, state) ==
    /\ cb[c].pc = "idle"
    /\ cf[c].pc = "idle"
    /\ LET verified == verifyOAuthState(state)
           reject(why) ==
               /\ cb' = [cb EXCEPT ![c] = [pc |-> "done", st |-> "none", out |-> why]]
               /\ cf' = cf
       IN  IF verified # "ok" THEN reject(verified)
           ELSE IF state.payload.businessId = "" THEN reject("missing businessId")
           ELSE IF state.payload.nonce = "" THEN reject("missing nonce")
           ELSE /\ cb' = [cb EXCEPT ![c] = [pc |-> "consume", st |-> state, out |-> "none"]]
                /\ cf' = [cf EXCEPT ![c] = [NoCall EXCEPT !.pc = "begin",
                                                          !.nonce = state.payload.nonce]]
    /\ UNCHANGED <<flows, conn, onow, gtok, restVarsO>>

\* server.js:457-462, 475-478  consumeOAuthFlow has returned or thrown
CallbackConsumed(c) ==
    /\ cb[c].pc = "consume"
    /\ cf[c].pc = "done"
    /\ cb' = [cb EXCEPT ![c] =
                IF cf[c].ret = "threw"
                THEN [pc |-> "done", st |-> "none", out |-> "OAuth failed"]
                ELSE IF cf[c].ret = "null"
                THEN [pc |-> "done", st |-> "none", out |-> "expired or already used"]
                ELSE IF cf[c].row.business_id # cb[c].st.payload.businessId
                THEN [pc |-> "done", st |-> "none", out |-> "business mismatch"]
                ELSE [cb[c] EXCEPT !.pc = "exchange"]]
    /\ UNCHANGED <<flows, conn, cf, onow, gtok, restVarsO>>

\* server.js:464-474  the code is exchanged and the tokens are stored for
\* the business of the state
CallbackStores(c) ==
    /\ cb[c].pc = "exchange"
    /\ gtok' = gtok \cup {[businessId |-> cb[c].st.payload.businessId,
                           state |-> cb[c].st, flow |-> cf[c].row,
                           verifiedAt |-> onow, by |-> c]}
    /\ cb' = [cb EXCEPT ![c] = [pc |-> "done", st |-> "none", out |-> "connected"]]
    /\ UNCHANGED <<flows, conn, cf, onow, restVarsO>>

\* server.js:466-478  the exchange or the write of the tokens throws
CallbackExchangeFails(c) ==
    /\ cb[c].pc = "exchange"
    /\ cb' = [cb EXCEPT ![c] = [pc |-> "done", st |-> "none", out |-> "OAuth failed"]]
    /\ UNCHANGED <<flows, conn, cf, onow, gtok, restVarsO>>

\* The flow of nonce n1 was stored when the consent URL was issued.
InitCallback ==
    /\ now = 0
    /\ body = [r \in Req |-> FirstBody]
    /\ bk = [r \in Req |-> NoRow]
    /\ pc = [r \in Req |-> "done"]
    /\ cur = [r \in Req |-> "none"]
    /\ created = [r \in Req |-> NULL]
    /\ result = [r \in Req |-> NoResult]
    /\ events = {}
    /\ apc = "idle"
    /\ aop = [kind |-> "none", b |-> 0, snap |-> "none"]
    /\ aerr = "none"
    /\ acalls = 0
    /\ tokens = TRUE
    /\ tx = [r \in Req |-> "none"]
    /\ herr = [r \in Req |-> "none"]
    /\ fb = [r \in Req |-> "none"]
    /\ sms = [r \in Req |-> NoSms]
    /\ em = [r \in Req |-> NoEm]
    /\ rt = NoTask
    /\ rnow = 0
    /\ WorkerIdle
    /\ VaultIdle
    /\ WindowIdle
    /\ BusyIdle
    /\ MigIdle
    /\ BootIdle
    /\ LateIdle
    /\ flows = {[nonce |-> "n1", business_id |-> "biz",
                 code_verifier |-> <<"verifier", "n1">>,
                 expires_at_utc |-> CallbackNow + FlowTtlSec]}
    /\ conn = NoConn
    /\ cf = [c \in Caller |-> NoCall]
    /\ onow = CallbackNow
    /\ cb = [c \in Caller |-> NoCallback]
    /\ gtok = {}

NextCallback ==
    \/ \E c \in Caller : \E state \in StatesOf(c) : CallbackArrives(c, state)
    \/ \E c \in Caller : ConsumeBegin(c)
    \/ \E c \in Caller : ConsumeSelect(c)
    \/ \E c \in Caller : ConsumeRollback(c)
    \/ \E c \in Caller : ConsumeDelete(c)
    \/ \E c \in Caller : ConsumeCommit(c)
    \/ \E c \in Caller : ConsumeCatch(c)
    \/ \E c \in Caller : CallbackConsumed(c)
    \/ \E c \in Caller : CallbackStores(c)
    \/ \E c \in Caller : CallbackExchangeFails(c)

SpecCallback == InitCallback /\ [][NextCallback]_vars

\* ------------------------------------------------------- token vault
restVarsV == <<flowVars, bk, events, apiVars, tokens, tx, herr, fb, notifyVars,
               retryVars, workerVars, oauthVars, win, busy, mig, boot, lateVars>>

\* Initialisation vectors crypto.randomBytes(12) can return.
IVs == {"iv1", "iv2", "iv3"}

\* tokens.js:10-25  encryptToken: AES-256-GCM under the configured key with
\* a fresh iv; ciphertext and tag are determined by iv and plaintext
encryptToken(plaintext, iv) ==
    IF ~Truthy(plaintext) THEN Null
    ELSE [t |-> "obj",
          enc |-> Str(<<"ct", iv>> \o plaintext.v),
          iv |-> Str(<<iv>>),
          tag |-> Str(<<"tag", iv>> \o plaintext.v)]

\* The i-th argument of a call; a parameter without argument is undefined.
Arg(args, i) == IF i <= Len(args) THEN args[i] ELSE Undefined

\* tokens.js:27-44  decryptToken(enc, iv, tag): null when a parameter is
\* missing; the tag must authenticate ciphertext and iv, else it throws
decryptToken(args) ==
    LET enc == Arg(args, 1)
        iv == Arg(args, 2)
        tag == Arg(args, 3)
    IN  IF ~Truthy(enc) \/ ~Truthy(iv) \/ ~Truthy(tag) THEN Null
        ELSE IF /\ enc.t = "str" /\ iv.t = "str" /\ tag.t = "str"
                /\ Len(enc.v) >= 2 /\ Len(tag.v) >= 2
                /\ <<enc.v[2]>> = iv.v
                /\ tag.v = <<"tag", enc.v[2]>> \o SubSeq(enc.v, 3, Len(enc.v))
             THEN Str(SubSeq(enc.v, 3, Len(enc.v)))
             ELSE [t |-> "threw"]

\* a || null
OrNull(a) == IF Truthy(a) THEN a ELSE Null
\* COALESCE(a, b)
Coalesce(a, b) == IF a.t # "null" THEN a ELSE b
\* A parameter default of null replaces undefined only.
DefaultNull(a) == IF a.t = "undefined" THEN Null ELSE a

\* An upsert that overwrites the iv column even without a new token.
upsertOverwritesIv(row, tok, iv) ==
    LET refresh_token == DefaultNull(tok.refresh_token)
        enc == IF Truthy(refresh_token) THEN encryptToken(refresh_token, iv) ELSE Null
        xenc == IF enc.t = "obj" THEN OrNull(enc.enc) ELSE Null
        xiv == IF enc.t = "obj" THEN OrNull(enc.iv) ELSE Null
        xtag == IF enc.t = "obj" THEN OrNull(enc.tag) ELSE Null
    IN  [exists |-> TRUE,
         access_token |-> Coalesce(DefaultNull(tok.access_token), row.access_token),
         scope |-> Coalesce(DefaultNull(tok.scope), row.scope),
         refresh_token |-> IF xenc.t # "null" THEN Null ELSE row.refresh_token,
         refresh_token_enc |-> Coalesce(xenc, row.refresh_token_enc),
         refresh_token_iv |-> xiv,
         refresh_token_tag |-> Coalesce(xtag, row.refresh_token_tag)]

\* db.js:293-360  upsertGoogleTokens: the row after INSERT ... ON CONFLICT
\* DO UPDATE
upsertRow(row, tok, iv) ==
    LET access_token == DefaultNull(tok.access_token)
        refresh_token == DefaultNull(tok.refresh_token)
        enc == IF Truthy(refresh_token) THEN encryptToken(refresh_token, iv) ELSE Null
        xenc == IF enc.t = "obj" THEN OrNull(enc.enc) ELSE Null
        xiv == IF enc.t = "obj" THEN OrNull(enc.iv) ELSE Null
        xtag == IF enc.t = "obj" THEN OrNull(enc.tag) ELSE Null
    IN  IF ~row.exists
        THEN [exists |-> TRUE, access_token |-> access_token,
              scope |-> DefaultNull(tok.scope),
              refresh_token |-> Null,
              refresh_token_enc |-> xenc, refresh_token_iv |-> xiv,
              refresh_token_tag |-> xtag]
        ELSE [exists |-> TRUE,
              access_token |-> Coalesce(access_token, row.access_token),
              scope |-> Coalesce(DefaultNull(tok.scope), row.scope),
              refresh_token |-> IF xenc.t # "null" THEN Null ELSE row.refresh_token,
              refresh_token_enc |-> Coalesce(xenc, row.refresh_token_enc),
              refresh_token_iv |-> Coalesce(xiv, row.refresh_token_iv),
              refresh_token_tag |-> Coalesce(xtag, row.refresh_token_tag)]

\* Token objects the token endpoint returns: with a refresh token, without
\* one, with an empty one.
TokenObjects ==
    { [access_token |-> a, scope |-> sc, refresh_token |-> r] :
        a \in {Undefined, Str(<<"a", "1">>), Str(<<"a", "2">>)},
        sc \in {Undefined, Str(<<"calendar">>)},
        r \in {Undefined, Null, Str(<<>>), Str(<<"r", "1">>), Str(<<"r", "2">>)} }

\* db.js:293-360  upsertGoogleTokens
UpsertGoogleTokens(tok, iv) ==
    /\ grow' = upsertRow(grow, tok, iv)
    /\ gput' = IF Truthy(DefaultNull(tok.refresh_token)) THEN tok.refresh_token ELSE gput
    /\ gread' = NoRead
    /\ UNCHANGED <<restVarsV>>

\* db.js:864-902  migrateLegacyRefreshTokens: the sweep over rows with a
\* plaintext refresh_token and no ciphertext
MigrateLegacyRefreshTokens(iv) ==
    /\ grow.exists
    /\ Truthy(grow.refresh_token)
    /\ ~Truthy(grow.refresh_token_enc)
    /\ LET enc == encryptToken(grow.refresh_token, iv)
       IN  grow' = [grow EXCEPT !.refresh_token = Null,
                                !.refresh_token_enc = enc.enc,
                                !.refresh_token_iv = enc.iv,
                                !.refresh_token_tag = enc.tag]
    /\ gread' = NoRead
    /\ UNCHANGED <<gput, restVarsV>>

\* db.js:361-420  getGoogleTokens: the refresh_token of the returned row,
\* or the throw
getGoogleTokens(row) ==
    LET anyEncField == \/ row.refresh_token_enc.t # "null"
                       \/ row.refresh_token_iv.t # "null"
                       \/ row.refresh_token_tag.t # "null"
    IN  IF anyEncField
        THEN IF \/ ~Truthy(row.refresh_token_enc)
                \/ ~Truthy(row.refresh_token_iv)
                \/ ~Truthy(row.refresh_token_tag)
             THEN [t |-> "threw"]
             ELSE decryptToken(<<[t |-> "obj", enc |-> row.refresh_token_enc,
                                  iv |-> row.refresh_token_iv,
                                  tag |-> row.refresh_token_tag]>>)
        ELSE Null

GetGoogleTokens ==
    /\ grow.exists
    /\ gread' = [valid |-> TRUE, refresh_token |-> getGoogleTokens(grow)]
    /\ UNCHANGED <<grow, gput, restVarsV>>

\* Rows as they are before the vault: none, or a row of the old schema
\* with or without a plaintext refresh token, the new columns NULL.
LegacyRows ==
    { NoTokenRow } \cup
    { [NoTokenRow EXCEPT !.exists = TRUE, !.access_token = Str(<<"a", "0">>),
                         !.refresh_token = r] :
        r \in {Null, Str(<<>>), Str(<<"r", "0">>)} }

InitVault ==
    /\ now = 0
    /\ body = [r \in Req |-> FirstBody]
    /\ bk = [r \in Req |-> NoRow]
    /\ pc = [r \in Req |-> "done"]
    /\ cur = [r \in Req |-> "none"]
    /\ created = [r \in Req |-> NULL]
    /\ result = [r \in Req |-> NoResult]
    /\ events = {}
    /\ apc = "idle"
    /\ aop = [kind |-> "none", b |-> 0, snap |-> "none"]
    /\ aerr = "none"
    /\ acalls = 0
    /\ tokens = TRUE
    /\ tx = [r \in Req |-> "none"]
    /\ herr = [r \in Req |-> "none"]
    /\ fb = [r \in Req |-> "none"]
    /\ sms = [r \in Req |-> NoSms]
    /\ em = [r \in Req |-> NoEm]
    /\ rt = NoTask
    /\ rnow = 0
    /\ WorkerIdle
    /\ OAuthIdle
    /\ WindowIdle
    /\ BusyIdle
    /\ MigIdle
    /\ BootIdle
    /\ LateIdle
    /\ grow \in LegacyRows
    /\ gput = Null
    /\ gread = NoRead

NextVault ==
    \/ \E tok \in TokenObjects, iv \in IVs : UpsertGoogleTokens(tok, iv)
    \/ \E iv \in IVs : MigrateLegacyRefreshTokens(iv)
    \/ GetGoogleTokens

SpecVault == InitVault /\ [][NextVault]_vars

\* ----------------------------------------- the time-window policy
restVarsT == <<flowVars, bk, events, apiVars, tokens, tx, herr, fb, notifyVars,
               retryVars, workerVars, oauthVars, vaultVars, busy, mig, boot, lateVars>>

\* Clocks, and the lead times (minutes) and horizons (days) a business row
\* can hold: the columns are INTEGER NOT NULL with no CHECK.
WindowClocks == {0, 9 * 60, MinutesPerDay - 1, MinutesPerDay, MinutesPerDay + 9 * 60}
LeadTimes == {-30, 0, 5, 60, 36 * 60}
Horizons == {-1, 0, 1, 2}

\* Requested starts: every three hours over four days, and the minutes
\* around the two limits of the policy.
WindowStarts(t, lead, days) ==
    { 180 * k : k \in 0..32 }
    \cup { t + Max(0, lead) + d : d \in {-1, 0, 1} }
    \cup { endOfDay(t + Max(0, days) * MinutesPerDay) + d : d \in {-1, 0, 1} }

\* part_025:235-250  the request is checked against the window policy
ValidateWindow ==
    /\ win.status = 0
    /\ LET details == timeWindowDetails(win.start, win.nowMin, win.lead_time_min,
                                        win.max_days_ahead)
       IN  win' = [win EXCEPT !.status = IF Len(details) = 0 THEN 200 ELSE 400,
                              !.details = details]
    /\ UNCHANGED restVarsT

\* No booking request, calendar call, notification or retry in progress.
BookingIdle ==
    /\ now = 0
    /\ body = [r \in Req |-> FirstBody]
    /\ bk = [r \in Req |-> NoRow]
    /\ pc = [r \in Req |-> "done"]
    /\ cur = [r \in Req |-> "none"]
    /\ created = [r \in Req |-> NULL]
    /\ result = [r \in Req |-> NoResult]
    /\ events = {}
    /\ apc = "idle"
    /\ aop = [kind |-> "none", b |-> 0, snap |-> "none"]
    /\ aerr = "none"
    /\ acalls = 0
    /\ tokens = TRUE
    /\ tx = [r \in Req |-> "none"]
    /\ herr = [r \in Req |-> "none"]
    /\ fb = [r \in Req |-> "none"]
    /\ sms = [r \in Req |-> NoSms]
    /\ em = [r \in Req |-> NoEm]
    /\ rt = NoTask
    /\ rnow = 0

InitWindow ==
    /\ BookingIdle
    /\ WorkerIdle
    /\ OAuthIdle
    /\ VaultIdle
    /\ BusyIdle
    /\ MigIdle
    /\ BootIdle
    /\ LateIdle
    /\ \E t \in WindowClocks, lead \in LeadTimes, days \in Horizons :
         \E start \in WindowStarts(t, lead, days) :
            win = [nowMin |-> t, lead_time_min |-> lead, max_days_ahead |-> days,
                   start |-> start, status |-> 0, details |-> <<>>]

NextWindow == ValidateWindow

SpecWindow == InitWindow /\ [][NextWindow]_vars

\* ------------------------------------------------- busy intervals
restVarsB == <<flowVars, bk, events, apiVars, tokens, tx, herr, fb, notifyVars,
               retryVars, workerVars, oauthVars, vaultVars, win, mig, boot, lateVars>>

MaxBusy == 3
MaxBusyTime == 4

\* src/src/security/clientIp.js:117-118  DateTime.fromISO of a timestamp
fromISO(x) == [isValid |-> x.iso = "ok", ms |-> x.min]

\* Array.prototype.sort with the comparator of clientIp.js:93 (stable)
RECURSIVE sortByStart(_)
sortByStart(intervals) ==
    IF intervals = <<>> THEN <<>>
    ELSE LET n == Len(intervals)
             x == intervals[n]
             sorted == sortByStart(SubSeq(intervals, 1, n - 1))
             k == Cardinality({i \in 1..Len(sorted) : sorted[i].start <= x.start})
         IN  SubSeq(sorted, 1, k) \o <<x>> \o SubSeq(sorted, k + 1, Len(sorted))

\* src/src/security/clientIp.js:96-104  the loop of mergeIntervals
RECURSIVE mergeLoop(_, _)
mergeLoop(rest, out) ==
    IF rest = <<>> THEN out
    ELSE LET interval == Head(rest)
             last == out[Len(out)]
         IN  IF interval.start <= last.end
             THEN mergeLoop(Tail(rest),
                            [out EXCEPT ![Len(out)].end = Max(last.end, interval.end)])
             ELSE mergeLoop(Tail(rest), Append(out, interval))

\* Merging without sorting first.
mergeIntervalsUnsorted(intervals) ==
    IF Len(intervals) = 0 THEN <<>>
    ELSE mergeLoop(Tail(intervals), <<intervals[1]>>)

\* src/src/security/clientIp.js:89-106  mergeIntervals
mergeIntervals(intervals) ==
    IF Len(intervals) = 0 THEN <<>>
    ELSE LET sorted == sortByStart(intervals)
         IN  mergeLoop(Tail(sorted), <<sorted[1]>>)

\* src/src/security/clientIp.js:114-129  normalizeBusyUtc
normalizeBusyUtc(list, bufferBeforeMin, bufferAfterMin) ==
    LET mapped == [i \in 1..Len(list) |->
                     LET s == fromISO(list[i].start)
                         e == fromISO(list[i].end)
                     IN  IF ~s.isValid \/ ~e.isValid
                         THEN [ok |-> FALSE, start |-> 0, end |-> 0]
                         ELSE [ok |-> TRUE, start |-> s.ms - bufferBeforeMin,
                               end |-> e.ms + bufferAfterMin]]
        intervals == [i \in 1..Len(SelectSeq(mapped, LAMBDA v : v.ok)) |->
                        LET v == SelectSeq(mapped, LAMBDA w : w.ok)[i]
                        IN  [start |-> v.start, end |-> v.end]]
    IN  mergeIntervals(intervals)

\* Timestamps of a free/busy answer: instants in minutes, or unparsable text.
IsoStamps == {[iso |-> "ok", min |-> t] : t \in 0..MaxBusyTime}
BadStamp == [iso |-> "bad", min |-> 0]
BusyItems ==
    {[start |-> a, end |-> b] : a \in IsoStamps, b \in IsoStamps}
    \cup {[start |-> BadStamp, end |-> [iso |-> "ok", min |-> 1]],
          [start |-> [iso |-> "ok", min |-> 1], end |-> BadStamp]}
BusyLists == UNION {[1..n -> BusyItems] : n \in 0..MaxBusy}
Buffers == {-1, 0, 1}

\* src/server.js:654  the availability handler normalises the busy list
NormalizeBusy ==
    /\ ~busy.done
    /\ busy' = [busy EXCEPT !.out = normalizeBusyUtc(busy.list, busy.bufferBeforeMin,
                                                     busy.bufferAfterMin),
                            !.done = TRUE]
    /\ UNCHANGED restVarsB

InitBusy ==
    /\ BookingIdle
    /\ WorkerIdle
    /\ OAuthIdle
    /\ VaultIdle
    /\ WindowIdle
    /\ MigIdle
    /\ BootIdle
    /\ LateIdle
    /\ \E list \in BusyLists, before \in Buffers, after \in Buffers :
          busy = [list |-> list, bufferBeforeMin |-> before, bufferAfterMin |-> after,
                  out |-> <<>>, done |-> FALSE]

NextBusy == NormalizeBusy

SpecBusy == InitBusy /\ [][NextBusy]_vars

\* --------------------------------------------------- schema migrations
restVarsM == <<flowVars, bk, events, apiVars, tokens, tx, herr, fb, notifyVars,
               retryVars, workerVars, oauthVars, vaultVars, win, busy, boot, lateVars>>

NumFiles == 2
NumStmts == 2
MaxStarts == 2

\* The migration files in the order of their names, and the statements of one.
files == 1..NumFiles
Stmt == 1..NumStmts

\* A statement always succeeds ("ok": CREATE ... IF NOT EXISTS, INSERT),
\* succeeds unless already in effect ("once": ALTER TABLE ADD COLUMN,
\* CREATE TABLE) or always fails ("bad").
StmtKinds == {"ok", "once", "bad"}

stmtFails(file, st) ==
    \/ mig.kind[file][st] = "bad"
    \/ mig.kind[file][st] = "once" /\ mig.effects[file][st] > 0

\* sqlite3_exec stops at the first failing statement: the statements of the
\* file that it runs before stopping.
stmtsRun(file) == {st \in Stmt : \A e \in 1..(st - 1) : ~stmtFails(file, e)}
execFails(file) == \E st \in Stmt : stmtFails(file, st)
execEffects(file) ==
    [mig.effects EXCEPT ![file] =
        [st \in Stmt |-> IF st \in stmtsRun(file) /\ ~stmtFails(file, st)
                         THEN mig.effects[file][st] + 1
                         ELSE mig.effects[file][st]]]

\* migrate.js:12-32 / part_026:31-60  runMigrations reads the ledger
MigrationsStart ==
    /\ mig.pc = "idle"
    /\ mig' = [mig EXCEPT !.pc = "next", !.applied = mig.ledger, !.i = 1]
    /\ UNCHANGED restVarsM

\* migrate.js:34-35  applyNext past the last file
ApplyNextResolves ==
    /\ mig.pc = "next"
    /\ mig.i > NumFiles
    /\ mig' = [mig EXCEPT !.pc = "resolved"]
    /\ UNCHANGED restVarsM

\* migrate.js:37-38  applyNext on a file found in the ledger
ApplyNextSkips ==
    /\ mig.pc = "next"
    /\ mig.i \in files
    /\ mig.i \in mig.applied
    /\ mig' = [mig EXCEPT !.i = mig.i + 1]
    /\ UNCHANGED restVarsM

\* migrate.js:40-42  db.exec(sql): the statements run one by one, each
\* committed on its own
ApplyNextExec ==
    /\ mig.pc = "next"
    /\ ~mig.wrapped
    /\ mig.i \in files
    /\ mig.i \notin mig.applied
    /\ mig' = [mig EXCEPT !.effects = execEffects(mig.i),
                          !.pc = IF execFails(mig.i) THEN "rejected" ELSE "record"]
    /\ UNCHANGED restVarsM

\* part_026:73-81  db.exec("BEGIN; sql; COMMIT;"), and ROLLBACK on an error
ApplyNextExecWrapped ==
    /\ mig.pc = "next"
    /\ mig.wrapped
    /\ mig.i \in files
    /\ mig.i \notin mig.applied
    /\ mig' = IF execFails(mig.i)
              THEN [mig EXCEPT !.pc = "rejected"]
              ELSE [mig EXCEPT !.effects = execEffects(mig.i), !.pc = "record"]
    /\ UNCHANGED restVarsM

\* migrate.js:44-53  the INSERT into schema_migrations succeeds
RecordMigration ==
    /\ mig.pc = "record"
    /\ mig' = [mig EXCEPT !.ledger = mig.ledger \cup {mig.i}, !.i = mig.i + 1,
                          !.pc = "next"]
    /\ UNCHANGED restVarsM

\* migrate.js:49  the INSERT into schema_migrations fails (database locked
\* by another process, disk full)
RecordMigrationFails ==
    /\ mig.pc = "record"
    /\ mig' = [mig EXCEPT !.pc = "rejected"]
    /\ UNCHANGED restVarsM

\* server.js:945-948  the process has exited; it is started again on the
\* same database file
StartAgain ==
    /\ mig.pc \in {"resolved", "rejected"}
    /\ mig.starts < MaxStarts
    /\ mig' = [mig EXCEPT !.pc = "idle", !.starts = mig.starts + 1, !.applied = {},
                          !.i = 0]
    /\ UNCHANGED restVarsM

InitMigrations ==
    /\ BookingIdle
    /\ WorkerIdle
    /\ OAuthIdle
    /\ VaultIdle
    /\ WindowIdle
    /\ BusyIdle
    /\ BootIdle
    /\ LateIdle
    /\ \E wrapped \in BOOLEAN, kind \in [files -> [Stmt -> StmtKinds]] :
          mig = [pc |-> "idle", wrapped |-> wrapped, kind |-> kind,
                 effects |-> [f \in files |-> [st \in Stmt |-> 0]],
                 ledger |-> {}, applied |-> {}, i |-> 0, starts |-> 1]

NextMigrations ==
    \/ MigrationsStart
    \/ ApplyNextResolves
    \/ ApplyNextSkips
    \/ ApplyNextExec
    \/ ApplyNextExecWrapped
    \/ RecordMigration
    \/ RecordMigrationFails
    \/ StartAgain

SpecMigrations == InitMigrations /\ [][NextMigrations]_vars

\* ------------------------------------------------------------ startup
restVarsS == <<flowVars, bk, events, apiVars, tokens, tx, herr, fb, notifyVars,
               retryVars, workerVars, oauthVars, vaultVars, win, busy, mig, lateVars>>

MaxTicks == 2

\* What can go wrong while the process starts.
StartupFailures == {"none", "open", "migrations", "dataLayer", "tokenMigration", "listen"}

\* server.js:945-948  start() rejected: the error is logged, process.exit(1)
startRejects == [boot EXCEPT !.pc = "exited", !.exited = TRUE, !.exitCode = 1]

step(name, next) == [boot EXCEPT !.pc = next, !.log = Append(boot.log, name)]

\* server.js:907  db = await openDb()
OpenDb ==
    /\ boot.pc = "start"
    /\ boot' = IF boot.fails = "open" THEN startRejects ELSE step("open", "opened")
    /\ UNCHANGED restVarsS

\* server.js:908  await runMigrations(db)
RunMigrations ==
    /\ boot.pc = "opened"
    /\ boot' = IF boot.fails = "migrations" THEN startRejects
               ELSE step("migrations", "migrated")
    /\ UNCHANGED restVarsS

\* server.js:911-912  makeDataLayer({ db })
MakeDataLayer ==
    /\ boot.pc = "migrated"
    /\ boot' = IF boot.fails = "dataLayer" THEN startRejects
               ELSE [boot EXCEPT !.pc = "ready"]
    /\ UNCHANGED restVarsS

\* server.js:920-926  RUN_TOKEN_MIGRATION === "1": maybeMigrateLegacyTokens
MaybeMigrateLegacyTokens ==
    /\ boot.pc = "ready"
    /\ boot' = IF ~boot.RUN_TOKEN_MIGRATION THEN [boot EXCEPT !.pc = "tokensDone"]
               ELSE IF boot.fails = "tokenMigration" THEN startRejects
               ELSE step("tokenMigration", "tokensDone")
    /\ UNCHANGED restVarsS

\* server.js:929-941  RUN_RETRY_WORKER === "1": setInterval(...), and then
\* server.listen(PORT, ...), with no await between the two
StartWorkerAndListen ==
    /\ boot.pc = "tokensDone"
    /\ boot' = [boot EXCEPT !.pc = "binding",
                            !.log = (IF boot.RUN_RETRY_WORKER
                                     THEN Append(boot.log, "ticker") ELSE boot.log)
                                    \o <<"listen">>]
    /\ UNCHANGED restVarsS

\* server.js:939-941  the port is bound: the listen callback runs
Listening ==
    /\ boot.pc = "binding"
    /\ boot.fails # "listen"
    /\ boot' = [boot EXCEPT !.pc = "serving"]
    /\ UNCHANGED restVarsS

\* server.js:939  the port cannot be bound: the server emits 'error', which
\* nothing handles, and the process dies of the uncaught exception
ListenFails ==
    /\ boot.pc = "binding"
    /\ boot.fails = "listen"
    /\ boot' = [boot EXCEPT !.pc = "exited", !.exited = TRUE, !.exitCode = 1]
    /\ UNCHANGED restVarsS

\* server.js:930-934  the interval fires: one runRetriesOnce
WorkerTick ==
    /\ boot.pc = "serving"
    /\ boot.RUN_RETRY_WORKER
    /\ boot.ticks < MaxTicks
    /\ boot' = [boot EXCEPT !.ticks = boot.ticks + 1]
    /\ UNCHANGED restVarsS

InitStartup ==
    /\ BookingIdle
    /\ WorkerIdle
    /\ OAuthIdle
    /\ VaultIdle
    /\ WindowIdle
    /\ BusyIdle
    /\ MigIdle
    /\ LateIdle
    /\ \E tm \in BOOLEAN, rw \in BOOLEAN, f \in StartupFailures :
          boot = [pc |-> "start", RUN_TOKEN_MIGRATION |-> tm, RUN_RETRY_WORKER |-> rw,
                  fails |-> f, log |-> <<>>, ticks |-> 0, exited |-> FALSE,
                  exitCode |-> 0]

NextStartup ==
    \/ OpenDb
    \/ RunMigrations
    \/ MakeDataLayer
    \/ MaybeMigrateLegacyTokens
    \/ StartWorkerAndListen
    \/ Listening
    \/ ListenFails
    \/ WorkerTick

SpecStartup == InitStartup /\ [][NextStartup]_vars

\* ------------------------------------------- the expired-hold sweep
earlyVars == <<flowVars, bk, events, apiVars, tokens, tx, herr, fb, notifyVars,
               retryVars, workerVars, oauthVars, vaultVars, win, busy, mig, boot>>

EarlyIdle ==
    /\ BookingIdle
    /\ WorkerIdle
    /\ OAuthIdle
    /\ VaultIdle
    /\ WindowIdle
    /\ BusyIdle
    /\ MigIdle
    /\ BootIdle

NumSweepRows == 2
MaxSweeps == 2

Businesses == {"bizA", "bizB"}
\* No business given: null, undefined or the empty string.
NoBusiness == ""
SweepClocks == {1, 2}
SweepRows ==
    [business_id : Businesses,
     status : {"pending", "confirmed", "failed", "cancelled"},
     hold_expires_at_utc : {NULL} \cup 1..3]

\* db.js:423-439  cleanupExpiredPendingHolds: the sweep over every business
cleanupExpiredPendingHolds(rows, businessId, at) ==
    [i \in DOMAIN rows |->
        IF /\ rows[i].status = "pending"
           /\ rows[i].hold_expires_at_utc # NULL
           /\ rows[i].hold_expires_at_utc <= at
        THEN [rows[i] EXCEPT !.status = "cancelled"]
        ELSE rows[i]]

\* db.js:441-459  cleanupExpiredHolds(db, businessId) on a table that
\* holds several businesses
cleanupExpiredHoldsOfBusiness(rows, businessId, at) ==
    IF businessId = NoBusiness THEN cleanupExpiredPendingHolds(rows, businessId, at)
    ELSE [i \in DOMAIN rows |->
            IF /\ rows[i].business_id = businessId
               /\ rows[i].status = "pending"
               /\ rows[i].hold_expires_at_utc # NULL
               /\ rows[i].hold_expires_at_utc <= at
            THEN [rows[i] EXCEPT !.status = "cancelled"]
            ELSE rows[i]]

\* part_025:259-261  the handler sweeps the holds of the request's business
SweepHolds ==
    /\ sw.pc = "run"
    /\ sw.runs < MaxSweeps
    /\ sw' = [sw EXCEPT !.prev = sw.rows,
                        !.rows = cleanupExpiredHoldsOfBusiness(sw.rows, sw.businessId,
                                                               sw.at),
                        !.runs = sw.runs + 1]
    /\ UNCHANGED <<earlyVars, au, rh, gs, rq>>

InitSweep ==
    /\ EarlyIdle
    /\ au = NoAutoSms /\ rh = NoRetryCall /\ gs = NoSlots /\ rq = NoQueue
    /\ \E rows \in [1..NumSweepRows -> SweepRows], at \in SweepClocks,
          businessId \in Businesses \cup {NoBusiness} :
          sw = [pc |-> "run", rows |-> rows, before |-> rows, prev |-> rows,
                at |-> at, businessId |-> businessId, runs |-> 0]

NextSweep == SweepHolds

SpecSweep == InitSweep /\ [][NextSweep]_vars

\* ------------------------------------------------ auto-SMS to the caller
NumInvocations == 2

Invocation == 1..NumInvocations
DedupeKey == "biz:req:auto_sms:booking_error"
Finished == {"skipped", "sent", "failed", "threw"}

\* db.js:722-771  the row logSmsAttempt inserts: the INSERT names no
\* dedupe_key column, so the column stays NULL. With au.keyed the key is
\* stored, as the SmsLog of the specification has it.
smsLogRow(i, status, dedupeKey) ==
    [by |-> i, status |-> status, dedupe_key |-> IF au.keyed THEN dedupeKey ELSE ""]

\* data.hasSmsLogByDedupeKey (called at part_023:77): a row with the key exists
hasSmsLogByDedupeKey(dedupeKey) == \E row \in au.logs : row.dedupe_key = dedupeKey

\* 013_emergency_auto_sms.sql:20  idx_sms_logs_dedupe_key refuses the row
dedupeIndexRefuses(row) ==
    row.dedupe_key # "" /\ \E o \in au.logs : o.dedupe_key = row.dedupe_key

\* part_023:75-79  the invocation looks the key up
AutoSmsCheck(i) ==
    /\ au.pc[i] = "idle"
    /\ au' = [au EXCEPT
                !.pc[i] = IF hasSmsLogByDedupeKey(DedupeKey) THEN "skipped" ELSE "send",
                !.later[i] = \E o \in Invocation : au.pc[o] \in Finished]
    /\ UNCHANGED <<earlyVars, sw, rh, gs, rq>>

\* part_023:84  twilioClient.sendSms succeeds within the timeout
AutoSmsSend(i) ==
    /\ au.pc[i] = "send"
    /\ au' = [au EXCEPT !.pc[i] = "log_sent", !.sms = au.sms + 1]
    /\ UNCHANGED <<earlyVars, sw, rh, gs, rq>>

\* part_023:84, 99  sendSms rejects, or the 10 s timeout fires while the
\* message may have gone out all the same
AutoSmsSendFails(i) ==
    /\ au.pc[i] = "send"
    /\ \E wentOut \in BOOLEAN :
          au' = [au EXCEPT !.pc[i] = "log_failed",
                           !.sms = IF wentOut THEN au.sms + 1 ELSE au.sms]
    /\ UNCHANGED <<earlyVars, sw, rh, gs, rq>>

\* part_023:85-98  the 'sent' row is logged; an INSERT that throws lands in
\* the catch
AutoSmsLogSent(i) ==
    /\ au.pc[i] = "log_sent"
    /\ LET row == smsLogRow(i, "sent", DedupeKey)
       IN  au' = IF dedupeIndexRefuses(row)
                 THEN [au EXCEPT !.pc[i] = "log_failed"]
                 ELSE [au EXCEPT !.pc[i] = "sent", !.logs = au.logs \cup {row}]
    /\ UNCHANGED <<earlyVars, sw, rh, gs, rq>>

\* part_023:99-115  the 'failed' row is logged; an INSERT that throws
\* leaves the function as a rejection
AutoSmsLogFailed(i) ==
    /\ au.pc[i] = "log_failed"
    /\ LET row == smsLogRow(i, "failed", DedupeKey)
       IN  au' = IF dedupeIndexRefuses(row)
                 THEN [au EXCEPT !.pc[i] = "threw"]
                 ELSE [au EXCEPT !.pc[i] = "failed", !.logs = au.logs \cup {row}]
    /\ UNCHANGED <<earlyVars, sw, rh, gs, rq>>

InitAutoSms ==
    /\ EarlyIdle
    /\ sw = NoSweep /\ rh = NoRetryCall /\ gs = NoSlots /\ rq = NoQueue
    /\ \E keyed \in BOOLEAN :
          au = [pc |-> [i \in Invocation |-> "idle"],
                later |-> [i \in Invocation |-> FALSE],
                keyed |-> keyed, logs |-> {}, sms |-> 0]

NextAutoSms ==
    \/ \E i \in Invocation : AutoSmsCheck(i)
    \/ \E i \in Invocation : AutoSmsSend(i)
    \/ \E i \in Invocation : AutoSmsSendFails(i)
    \/ \E i \in Invocation : AutoSmsLogSent(i)
    \/ \E i \in Invocation : AutoSmsLogFailed(i)

SpecAutoSms == InitAutoSms /\ [][NextAutoSms]_vars

\* ------------------------------------------- synchronous retry helper
\* Times are milliseconds.

\* an error as retry.js reads it: code (error.code as a string) and the
\* HTTP status (0 when the error carries none)
GoogleErrors ==
    { [code |-> "GOOGLE_TIMEOUT", status |-> 0], [code |-> "ECONNRESET", status |-> 0],
      [code |-> "ETIMEDOUT", status |-> 0],      [code |-> "ENOTFOUND", status |-> 0],
      [code |-> "", status |-> 429],             [code |-> "", status |-> 500],
      [code |-> "", status |-> 503],             [code |-> "", status |-> 400],
      [code |-> "404", status |-> 0],            [code |-> "", status |-> 499],
      [code |-> "EPIPE", status |-> 0],          [code |-> "", status |-> 0] }

\* Number(x) of a code string: the number it spells, NaN (here 0) otherwise
NumberOf(code) == IF code = "404" THEN 404 ELSE 0

\* retry.js:1-3  Number(code) || Number(status) || null, null as 0
getErrorStatus(error) ==
    IF NumberOf(error.code) # 0 THEN NumberOf(error.code) ELSE error.status

\* retry.js:5-7
getErrorCode(error) == error.code

isRetryableAlways(error) == TRUE

\* retry.js:9-19
isRetryableGoogleError(error) ==
    LET code == getErrorCode(error)
        status == getErrorStatus(error)
    IN  IF code = "GOOGLE_TIMEOUT" THEN TRUE
        ELSE IF status = 429 THEN TRUE
        ELSE IF status >= 500 THEN TRUE
        ELSE IF code \in {"ECONNRESET", "ETIMEDOUT", "ENOTFOUND"} THEN TRUE
        ELSE FALSE

\* the options of the two call sites (part_025:328-336, 472-480) and the
\* defaults of retry.js:34-41
RetryOptions ==
    { [label |-> "google.freebusy", maxAttempts |-> 3, baseDelayMs |-> 250,
       maxDelayMs |-> 1500, maxElapsedMs |-> 4500],
      [label |-> "google.events.list.idempotency", maxAttempts |-> 2, baseDelayMs |-> 250,
       maxDelayMs |-> 1000, maxElapsedMs |-> 2500],
      [label |-> "", maxAttempts |-> 3, baseDelayMs |-> 250,
       maxDelayMs |-> 1500, maxElapsedMs |-> 10000] }

\* how long one call of fn takes; withTimeout ends it after 2500 ms
\* (part_025:315)
CallDurations == {0, 500, 2500}

\* retry.js:52  Math.floor(Math.random() * (baseDelayMs + 1))
Jitters(baseDelayMs) == {0, 1, baseDelayMs \div 2, baseDelayMs}

\* retry.js:51
expoDelay(o, attempt) == Min(o.maxDelayMs, o.baseDelayMs * PowerOfTwo(attempt - 1))

NoError == [code |-> "", status |-> -1]

\* retry.js:46  fn(attempt) resolves and retry returns its value
RetryCallReturns ==
    /\ rh.pc = "call"
    /\ rh.attempt <= rh.o.maxAttempts
    /\ \E d \in CallDurations :
          rh' = [rh EXCEPT !.pc = "returned", !.calls = rh.calls + 1,
                           !.clock = rh.clock + d, !.result = rh.attempt]
    /\ UNCHANGED <<earlyVars, sw, au, gs, rq>>

\* retry.js:47-68  fn(attempt) rejects: rethrow, or compute the delay and
\* either rethrow or go to sleep
RetryCallRejects ==
    /\ rh.pc = "call"
    /\ rh.attempt <= rh.o.maxAttempts
    /\ \E d \in CallDurations, error \in GoogleErrors, jitter \in Jitters(rh.o.baseDelayMs) :
          LET retryable == isRetryableGoogleError(error)
              delayMs == expoDelay(rh.o, rh.attempt) + jitter
              elapsedMs == rh.clock + d - rh.started
              failed == [rh EXCEPT !.calls = rh.calls + 1, !.clock = rh.clock + d,
                                   !.last = error]
          IN  rh' = IF ~retryable \/ rh.attempt >= rh.o.maxAttempts
                    THEN [failed EXCEPT !.pc = "threw", !.thrown = error]
                    ELSE IF elapsedMs + delayMs > rh.o.maxElapsedMs
                    THEN [failed EXCEPT !.pc = "threw", !.thrown = error,
                                        !.elapsedMs = elapsedMs, !.delayMs = delayMs]
                    ELSE [failed EXCEPT !.pc = "sleep",
                                        !.elapsedMs = elapsedMs, !.delayMs = delayMs]
    /\ UNCHANGED <<earlyVars, sw, au, gs, rq>>

\* retry.js:67, 44  the sleep ends and the loop goes to the next attempt
RetrySleepEnds ==
    /\ rh.pc = "sleep"
    /\ rh' = [rh EXCEPT !.pc = "call", !.attempt = rh.attempt + 1,
                        !.clock = rh.clock + rh.delayMs, !.slept = rh.slept + 1]
    /\ UNCHANGED <<earlyVars, sw, au, gs, rq>>

InitRetryCall ==
    /\ EarlyIdle
    /\ sw = NoSweep /\ au = NoAutoSms /\ gs = NoSlots /\ rq = NoQueue
    /\ \E o \in RetryOptions :
          rh = [pc |-> "call", o |-> o, attempt |-> 1, started |-> 0, clock |-> 0,
                calls |-> 0, slept |-> 0, last |-> NoError, thrown |-> NoError,
                result |-> 0, elapsedMs |-> 0, delayMs |-> 0]

NextRetryCall == RetryCallReturns \/ RetryCallRejects \/ RetrySleepEnds

SpecRetryCall == InitRetryCall /\ [][NextRetryCall]_vars

\* fn settles (withTimeout, part_025:317-326) and the timer of sleep fires
SpecRetryCallFair == SpecRetryCall /\ WF_vars(NextRetryCall)

\* ------------------------------------------------------ generateSlots
\* Local times are seconds from the start of the first day of the window
\* in the business time zone; a day has DaySeconds of them.
MaxSlotDays == 2

DaySeconds == 24 * 3600
\* offset of the business zone from UTC (America/Chicago in winter)
ZoneOffsetSeconds == -(6 * 3600)

toUTC(z) == z - ZoneOffsetSeconds

HHMM(h, mi) == [h |-> h, m |-> mi]

\* clientIp.js:70-73  the given day at hh:mm:00.000
makeZonedDateTime(dateZ, hhmm) ==
    (dateZ \div DaySeconds) * DaySeconds + hhmm.h * 3600 + hhmm.m * 60

CeilDiv(a, b) == (a + b - 1) \div b

alignUpKeepingSeconds(dt, granMin) ==
    LET secondOfDay == dt % DaySeconds
    IN  (dt \div DaySeconds) * DaySeconds + CeilDiv(secondOfDay, granMin * 60) * granMin * 60

\* clientIp.js:76-82  hour*60 + minute leaves the seconds out, and set()
\* writes second 0
alignUp(dt, granMin) ==
    LET minutes == (dt % DaySeconds) \div 60
        aligned == CeilDiv(minutes, granMin) * granMin
    IN  (dt \div DaySeconds) * DaySeconds + aligned * 60

\* clientIp.js:84-87
overlaps(aStart, aEnd, bStart, bEnd) == aStart < bEnd /\ aEnd > bStart

\* clientIp.js:186-212  the while loop of one working window
RECURSIVE slotsFrom(_, _, _, _, _)
slotsFrom(cursorZ, endZ, durMin, granMin, busyMergedUtc) ==
    IF cursorZ + durMin * 60 > endZ THEN <<>>
    ELSE LET slotEndZ == cursorZ + durMin * 60
             blocked == \E k \in 1..Len(busyMergedUtc) :
                           overlaps(toUTC(cursorZ), toUTC(slotEndZ),
                                    busyMergedUtc[k].start, busyMergedUtc[k].end)
             slot == [start_local |-> cursorZ, end_local |-> slotEndZ,
                      start_utc |-> toUTC(cursorZ), end_utc |-> toUTC(slotEndZ)]
         IN  (IF blocked THEN <<>> ELSE <<slot>>)
             \o slotsFrom(cursorZ + granMin * 60, endZ, durMin, granMin, busyMergedUtc)

\* clientIp.js:170-185  one working window of day d
RECURSIVE windowsOfDay(_, _, _, _, _, _, _)
windowsOfDay(d, dayWindows, k, earliestZ, durMin, granMin, busyMergedUtc) ==
    IF k > Len(dayWindows) THEN <<>>
    ELSE LET startZ == makeZonedDateTime(d, dayWindows[k].start)
             endZ == makeZonedDateTime(d, dayWindows[k].end)
             cursorZ == alignUp(Max(startZ, earliestZ), granMin)
         IN  (IF endZ <= startZ THEN <<>>
              ELSE slotsFrom(cursorZ, endZ, durMin, granMin, busyMergedUtc))
             \o windowsOfDay(d, dayWindows, k + 1, earliestZ, durMin, granMin, busyMergedUtc)

\* clientIp.js:161-168  the days [startDayZ, endDateZ)
RECURSIVE daysFrom(_, _, _, _, _, _, _)
daysFrom(d, endDateZ, working, earliestZ, durMin, granMin, busyMergedUtc) ==
    IF d >= endDateZ THEN <<>>
    ELSE windowsOfDay(d, working[d \div DaySeconds + 1], 1, earliestZ, durMin, granMin,
                      busyMergedUtc)
         \o daysFrom(d + DaySeconds, endDateZ, working, earliestZ, durMin, granMin,
                     busyMergedUtc)

\* clientIp.js:140-218
generateSlots(business, days, durationMin, busyMergedUtc, nowZ) ==
    LET granMin == IF business.slot_granularity_min = 0 THEN 15
                   ELSE business.slot_granularity_min
        durMin == IF durationMin # 0 THEN durationMin
                  ELSE IF business.default_duration_min # 0
                       THEN business.default_duration_min ELSE 60
        earliestZ == nowZ + business.lead_time_min * 60
    IN  daysFrom(0, days * DaySeconds, business.working_hours_json, earliestZ,
                 durMin, granMin, busyMergedUtc)

\* DateTime.now() in the business zone: on and off the minute and the grid
SlotNows == { -3600, 32400, 32401, 32430, 32459, 32820, 32850, 37799, 60320,
              85801, 86400 + 32410 }
SlotLeadTimes == {0, 15, 50}
SlotGranularities == {0, 15, 30}
SlotDurations == {0, 30, 60}
DayWindowLists ==
    { <<>>,
      << [start |-> HHMM(9, 0), end |-> HHMM(12, 0)] >>,
      << [start |-> HHMM(9, 10), end |-> HHMM(10, 40)],
         [start |-> HHMM(13, 0), end |-> HHMM(14, 30)] >>,
      << [start |-> HHMM(17, 0), end |-> HHMM(9, 0)],
         [start |-> HHMM(22, 0), end |-> HHMM(23, 59)] >> }
SlotBusyLists ==
    { <<>>, << [start |-> toUTC(34200), end |-> toUTC(37800)] >> }

\* clientIp.js:140-218  the call
GenerateSlots ==
    /\ gs.pc = "called"
    /\ gs' = [gs EXCEPT !.pc = "returned",
                        !.out = generateSlots(gs.business, gs.days, gs.durationMin,
                                              gs.busyMergedUtc, gs.nowZ)]
    /\ UNCHANGED <<earlyVars, sw, au, rh, rq>>

InitSlots ==
    /\ EarlyIdle
    /\ sw = NoSweep /\ au = NoAutoSms /\ rh = NoRetryCall /\ rq = NoQueue
    /\ \E nowZ \in SlotNows, leadMin \in SlotLeadTimes, granMin \in SlotGranularities,
          durationMin \in SlotDurations, dayWindows \in DayWindowLists,
          days \in 1..MaxSlotDays, busyMergedUtc \in SlotBusyLists :
          gs = [pc |-> "called", nowZ |-> nowZ, days |-> days,
                durationMin |-> durationMin, busyMergedUtc |-> busyMergedUtc,
                business |-> [lead_time_min |-> leadMin,
                              slot_granularity_min |-> granMin,
                              default_duration_min |-> 60,
                              working_hours_json |-> [n \in 1..MaxSlotDays |-> dayWindows]],
                out |-> <<>>]

NextSlots == GenerateSlots

SpecSlots == InitSlots /\ [][NextSlots]_vars

\* ------------------------------------- the retries table under the worker
NumTasks == 2
QueueLimit == 1
MaxQueueAttempts == 2
MaxSlowTicks == 2
MaxStorageFailures == 1

Task == 1..NumTasks
QueueRun == 1..2

NoQueueRow == [status |-> "none", attempt_count |-> 0, max_attempts |-> 0,
               next_attempt_at_utc |-> 0, created_at_utc |-> 0]
NoQueueRun == [pc |-> "idle", batch |-> <<>>, i |-> 0, at |-> 0]

\* db.js:990-991  WHERE status='pending' AND next_attempt_at_utc <= now
dueRetries(rows, at) ==
    { t \in Task : rows[t].status = "pending" /\ rows[t].next_attempt_at_utc <= at }

\* db.js:992  ORDER BY next_attempt_at_utc ASC, created_at_utc ASC (rows of
\* one instant in insertion order)
orderedBefore(rows, a, b) ==
    \/ rows[a].next_attempt_at_utc < rows[b].next_attempt_at_utc
    \/ /\ rows[a].next_attempt_at_utc = rows[b].next_attempt_at_utc
       /\ \/ rows[a].created_at_utc < rows[b].created_at_utc
          \/ rows[a].created_at_utc = rows[b].created_at_utc /\ a < b

RECURSIVE firstRetries(_, _, _)
firstRetries(rows, candidates, limit) ==
    IF candidates = {} \/ limit = 0 THEN <<>>
    ELSE LET head == CHOOSE t \in candidates :
                        \A o \in candidates \ {t} : orderedBefore(rows, t, o)
         IN  <<[id |-> head, row |-> rows[head]]>>
             \o firstRetries(rows, candidates \ {head}, limit - 1)

\* db.js:985-997
listDueRetries(rows, at, limit) == firstRetries(rows, dueRetries(rows, at), limit)

\* part_020:77, 89-99  what markRetryAttempt is given after a failure
queueFailedAttempt(retry, at) ==
    LET attemptCount == retry.attempt_count + 1
        maxAttempts == IF retry.max_attempts = 0 THEN 5 ELSE retry.max_attempts
        exhausted == attemptCount >= maxAttempts
    IN  [retry EXCEPT
            !.attempt_count = attemptCount,
            !.next_attempt_at_utc =
                IF exhausted THEN retry.next_attempt_at_utc
                ELSE at + computeDelaySeconds(attemptCount),
            !.status = IF exhausted THEN "failed" ELSE "pending"]

QueuePending == \E t \in Task : rq.rows[t].status = "pending"

QueueFrame == UNCHANGED <<earlyVars, sw, au, rh, gs>>

\* db.js:952-983  enqueueRetry: the next task is inserted, due at once
QueueEnqueue(maxAttempts) ==
    /\ rq.inserted < NumTasks
    /\ LET t == rq.inserted + 1
       IN  rq' = [rq EXCEPT
                    !.inserted = t,
                    !.rows[t] = [status |-> "pending", attempt_count |-> 0,
                                 max_attempts |-> maxAttempts,
                                 next_attempt_at_utc |-> rq.clock,
                                 created_at_utc |-> rq.clock]]
    /\ QueueFrame

\* server.js:930-934, part_020:74  the tick of this instant starts a run
\* whether or not another one is in progress; the run reads its batch
QueueListDue(w) ==
    /\ rq.run[w].pc = "idle"
    /\ rq.started < rq.clock
    /\ \A o \in QueueRun : o < w => rq.run[o].pc # "idle"
    /\ LET retries == listDueRetries(rq.rows, rq.clock, QueueLimit)
       IN  rq' = [rq EXCEPT
                    !.started = rq.clock,
                    !.run[w] = IF retries = <<>> THEN NoQueueRun
                               ELSE [pc |-> "run", batch |-> retries, i |-> 1,
                                     at |-> rq.clock]]
    /\ QueueFrame

\* the run goes on to the next task of its batch, or ends
queueAdvance(run) ==
    IF run.i >= Len(run.batch) THEN NoQueueRun ELSE [run EXCEPT !.i = run.i + 1]

\* part_020:80-87  executeRetry returns and the success is recorded
QueueSucceeds(w) ==
    /\ rq.run[w].pc = "run"
    /\ LET retry == rq.run[w].batch[rq.run[w].i]
       IN  rq' = [rq EXCEPT
                    !.executed[retry.id] = rq.executed[retry.id] + 1,
                    !.rows[retry.id] =
                        [retry.row EXCEPT !.attempt_count = retry.row.attempt_count + 1,
                                          !.status = "succeeded"],
                    !.run[w] = queueAdvance(rq.run[w])]
    /\ QueueFrame

\* part_020:80-100  executeRetry, or the write of its success, throws and
\* the failure is recorded
QueueFails(w) ==
    /\ rq.run[w].pc = "run"
    /\ LET retry == rq.run[w].batch[rq.run[w].i]
       IN  rq' = [rq EXCEPT
                    !.executed[retry.id] = rq.executed[retry.id] + 1,
                    !.rows[retry.id] = queueFailedAttempt(retry.row, rq.clock),
                    !.run[w] = queueAdvance(rq.run[w])]
    /\ QueueFrame

\* part_020:92, 103-105  the write of the failure throws as well: the row
\* stays as it is and the run ends with the rest of its batch untouched
QueueFailsUnrecorded(w) ==
    /\ rq.run[w].pc = "run"
    /\ rq.storageFailures < MaxStorageFailures
    /\ LET retry == rq.run[w].batch[rq.run[w].i]
       IN  rq' = [rq EXCEPT
                    !.executed[retry.id] = rq.executed[retry.id] + 1,
                    !.storageFailures = rq.storageFailures + 1,
                    !.run[w] = NoQueueRun]
    /\ QueueFrame

\* server.js:934  the next tick comes: after this instant's run was started
\* (or no run could start), while a task is pending, and no run outlasts
\* MaxSlowTicks periods
QueueTick ==
    /\ QueuePending
    /\ rq.started = rq.clock \/ \A w \in QueueRun : rq.run[w].pc # "idle"
    /\ \A w \in QueueRun :
          rq.run[w].pc # "idle" => rq.clock + TickSeconds <= rq.run[w].at + MaxSlowTicks * TickSeconds
    /\ rq' = [rq EXCEPT !.clock = rq.clock + TickSeconds]
    /\ QueueFrame

InitQueue ==
    /\ EarlyIdle
    /\ sw = NoSweep /\ au = NoAutoSms /\ rh = NoRetryCall /\ gs = NoSlots
    /\ rq = [rows |-> [t \in Task |-> NoQueueRow],
             run |-> [w \in QueueRun |-> NoQueueRun],
             executed |-> [t \in Task |-> 0],
             clock |-> TickSeconds, started |-> 0, inserted |-> 0,
             storageFailures |-> 0]

NextQueue ==
    \/ \E maxAttempts \in 1..MaxQueueAttempts : QueueEnqueue(maxAttempts)
    \/ \E w \in QueueRun : QueueListDue(w)
    \/ \E w \in QueueRun : QueueSucceeds(w)
    \/ \E w \in QueueRun : QueueFails(w)
    \/ \E w \in QueueRun : QueueFailsUnrecorded(w)
    \/ QueueTick

SpecQueue == InitQueue /\ [][NextQueue]_vars

\* the timer keeps firing (setInterval) and every await of a run settles
SpecQueueFair == SpecQueue /\ WF_vars(NextQueue)

\* ---------------------------------------------------------------- C11
\* A request answered 500 whose own hold row was committed.
FailedAfterHold(r) == result[r].status = 500 /\ Exists(bk, r)

FireAndForgetIsolated ==
    \A r \in Req :
        sms[r].pc # "none" =>
            /\ pc[r] = "done"
            /\ result[r].status = 200
            /\ result[r].bookingId = r
            /\ bk[r].status = "confirmed"
            /\ fb[r] = "none"

\* The SMS was not sent, a later write of the chain threw and the
\* emergency handler threw; both chains are over.
FireAndForgetIsolatedWitness ==
    \E r \in Req :
        /\ sms[r].pc = "done"
        /\ sms[r].sent = "failed"
        /\ sms[r].threw
        /\ em[r].pc = "done"
        /\ em[r].outcome = "threw"
        /\ bk[r].status = "confirmed"
        /\ result[r].status = 200

\* ---------------------------------------------------------------- C13
\* The SMS chain of r is over and its send failed.
SmsSendFailed(r) == sms[r].pc = "done" /\ sms[r].sent = "failed"

\* An SmsLog row "failed" and a twilio_sms retry with the recipient and the
\* body exist for booking r.
SmsFailureRecorded(r) ==
    /\ "failed" \in sms[r].logs
    /\ \E t \in sms[r].tasks :
          /\ t.kind = "twilio_sms"
          /\ t.bookingId = r
          /\ t.to = body[r].phone
          /\ t.to # <<>>
          /\ t.body = <<"confirmed", body[r].start, r>>

ClaimOutsideWorkingHours(start) ==
    LET windows == Business.working_hours[(start \div MinutesPerDay) % 7]
        minute == start % MinutesPerDay
    IN  \A i \in DOMAIN windows :
            ~(windows[i].start <= minute /\ minute < windows[i].end)

ClaimEmergency(b) ==
    \/ b.service = "emergency"
    \/ ClaimOutsideWorkingHours(b.start)
    \/ b.emergencyFlag

\* C14: when a request and its emergency chain are over, handleEmergency
\* was invoked exactly once if the request confirmed a booking whose service
\* is "emergency", whose start is outside working hours or whose emergency
\* flag is set, and zero times otherwise.
EmergencyExactlyOnce ==
    \A r \in Req :
        pc[r] = "done" /\ em[r].pc # "scheduled" =>
            em[r].calls = IF result[r].confirmer /\ ClaimEmergency(body[r])
                          THEN 1 ELSE 0
\* ---------------------------------------------------------------- C15
\* The request is one that passes the intake: known business, valid
\* fields, start inside the booking window.
ClaimWellFormed(r) ==
    /\ body[r].businessId = "biz"
    /\ body[r].start # NULL
    /\ body[r].duration \in 1..480
    /\ body[r].buffer \in 0..1440
    /\ body[r].start >= 60
    /\ body[r].start < 15 * 1440

InIntake(r) == pc[r] \in {"start", "validate"}

\* A request answered 404 or 400 holds nothing: no row, no transaction, no
\* calendar event, no detached work.
RejectedHoldsNothing ==
    \A r \in Req :
        result[r].status \in {400, 404} =>
            /\ ~Exists(bk, r)
            /\ tx[r] = "none"
            /\ created[r] = NULL
            /\ \A e \in events : e.id \notin {EventId(r, 1), EventId(r, 2)}
            /\ sms[r] = NoSms
            /\ em[r] = NoEm

\* 404 and 400 are answered from the intake only, and a step of a request
\* in the intake changes no ledger row, no transaction and no event.
IntakeStep ==
    \A r \in Req :
        /\ (result[r].status = 0 /\ result'[r].status \in {400, 404}) => InIntake(r)
        /\ (InIntake(r) /\ pc'[r] # pc[r]) =>
               /\ bk' = bk
               /\ tx' = tx
               /\ events' = events

\* C16: whenever createBooking answers 404 or 400, it has created or
\* modified no ledger row, opened no transaction and made no external call.
RejectionChangesNothing == []RejectedHoldsNothing /\ [][IntakeStep]_vars

\* A request was answered 400 while the expired hold of another request was
\* waiting for the sweeper, and left it as it was.
RejectionChangesNothingWitness ==
    \E r \in Req : \E o \in Req \ {r} :
        /\ result[r].status = 400
        /\ bk[o].status = "pending"
        /\ bk[o].hold <= now

\* ---------------------------------------------------------------- C17
IdempotencyIndex == "uniq_bookings_active_idempotency_key"
SlotIndex == "uniq_bookings_active_slot_key"

\* The hold transaction of r ended with an error.
HoldLost(r) == herr[r] \in {IdempotencyIndex, SlotIndex, "error"}

\* The loser is rolled back, retries nothing and leaves no row.
LoserLeavesNothing ==
    \A r \in Req :
        HoldLost(r) =>
            /\ tx[r] \in {"none", "rolledback"}
            /\ ~Exists(bk, r)
            /\ created[r] = NULL
            /\ pc[r] \in {"relookup", "done"}
            /\ herr[r] # IdempotencyIndex => pc[r] = "done"

\* The answer by kind of error, as the claim states it.
LoserAnswerOriginal ==
    \A r \in Req :
        (HoldLost(r) /\ pc[r] = "done") =>
            CASE herr[r] = IdempotencyIndex -> result[r].status \in {200, 202}
              [] herr[r] = SlotIndex -> result[r].status = 409
              [] herr[r] = "error" -> result[r].status = 500

\* C17 as stated: idempotency-index violation answers 200 or 202, any other
\* uniqueness violation 409, a non-constraint error 500; the loser is
\* rolled back, retries nothing and leaves no row.
HoldErrorMappingOriginal == LoserLeavesNothing /\ LoserAnswerOriginal

\* The rows the re-lookup can find (pending or confirmed, same key).
ClaimFound(r) == SameKeyRows(r, "pending") \cup SameKeyRows(r, "confirmed")

\* The step that answers a request after its re-lookup: 200 with the id of
\* a confirmed booking of the same key, 202 with the id of a pending one,
\* 409 when there is none any more.
RelookupStep ==
    \A r \in Req :
        (pc[r] = "relookup" /\ pc'[r] = "done") =>
            /\ herr[r] = IdempotencyIndex
            /\ bk' = bk
            /\ IF ClaimFound(r) = {}
               THEN result'[r].status = 409
               ELSE /\ result'[r].bookingId \in ClaimFound(r)
                    /\ result'[r].status =
                          IF bk[result'[r].bookingId].status = "confirmed"
                          THEN 200 ELSE 202

LoserAnswer ==
    \A r \in Req :
        (HoldLost(r) /\ pc[r] = "done") =>
            CASE herr[r] = IdempotencyIndex -> result[r].status \in {200, 202, 409}
              [] herr[r] = SlotIndex -> result[r].status = 409
              [] herr[r] = "error" -> result[r].status = 500

\* C17, amended: idempotency-index violation re-runs the lookup and answers
\* 200 (confirmed found), 202 (pending found) or 409 (nothing found any
\* more); any other uniqueness violation 409; a non-constraint error 500;
\* the loser is rolled back, retries nothing and leaves no row.
HoldErrorMapping ==
    [](LoserLeavesNothing /\ LoserAnswer) /\ [][RelookupStep]_vars

\* A request lost on the idempotency index and was answered 202 with the
\* id of the pending booking of the winner.
HoldErrorMappingWitness ==
    \E r \in Req :
        /\ herr[r] = IdempotencyIndex
        /\ pc[r] = "done"
        /\ result[r].status = 202
        /\ result[r].bookingId # r
        /\ tx[r] = "rolledback"

\* ---------------------------------------------------------------- C18
\* The request is at the freebusy recheck.
AtFreeBusy(r) == pc[r] = "freebusy"
\* The request is at an event insert.
AtInsert(r) == pc[r] \in {"insert1", "list", "insert2"}

ExternalCallInFlight(r) ==
    \/ pc[r] \in {"freebusy", "insert1", "list", "insert2"}
    \/ sms[r].pc = "send"

ClaimBackoff(k) == IF 30 * 2^(k - 1) < 1800 THEN 30 * 2^(k - 1) ELSE 1800

\* A step in which an execution of the task failed: the attempt is counted
\* and the task is not succeeded.
FailedExecution ==
    /\ rt'.attempt_count = rt.attempt_count + 1
    /\ rt'.status # "succeeded"

\* While pending the task has failed fewer than M times, and a failed task
\* has failed exactly M times.
AttemptsWithinMax ==
    /\ rt.status = "pending" => rt.attempt_count < rt.max_attempts
    /\ rt.status = "failed" => rt.attempt_count = rt.max_attempts

\* The k-th failed execution at time rnow: for k < M the task stays pending
\* and is due again at rnow + min(30 * 2^(k-1), 1800); for k = M it becomes
\* failed; a failed task never changes again.
BackoffStep ==
    /\ FailedExecution =>
          LET k == rt'.attempt_count
          IN  IF k < rt.max_attempts
              THEN /\ rt'.status = "pending"
                   /\ rt'.next_attempt_at_utc = rnow + ClaimBackoff(k)
              ELSE rt'.status = "failed"
    /\ rt.status = "failed" => rt' = rt

Terminal == {"succeeded", "failed"}

\* While the task is terminal no run executes it and its status and
\* attempt-count stay as they are.
TerminalTaskStep ==
    rt.status \in Terminal =>
        /\ rt'.status = rt.status
        /\ rt'.attempt_count = rt.attempt_count
        /\ \A w \in Run : wk[w].pc = "listed" => wk'[w].pc = "listed"

\* C21: a retry task whose status is succeeded or failed is never executed
\* again and its status and attempt-count never change again; the side
\* effect of a succeeded task has been applied exactly once.
TerminalTaskIsFinal ==
    /\ [](rt.status = "succeeded" => applied = 1)
    /\ [][TerminalTaskStep]_vars

\* ---------------------------------------------------------------- C22
\* C22: of any number of consumeOAuthFlow calls for the same nonce,
\* sequential or concurrent, at most one returns the flow and every other
\* returns null.
ConsumedAtMostOnce ==
    \A n \in {"n1"} :
        LET calls == {c \in Caller : cf[c].nonce = n /\ cf[c].pc = "done"}
            winners == {c \in calls : cf[c].ret = "flow"}
        IN  /\ Cardinality(winners) <= 1
            /\ \A c \in calls \ winners : cf[c].ret = "null"

\* ---------------------------------------------------------------- C23
\* C23: consumeOAuthFlow never returns a flow whose expires-at is in the
\* past.
ExpiredFlowNotReturned ==
    \A c \in Caller :
        cf[c].ret = "flow" => cf[c].row.expires_at_utc >= cf[c].at

\* ---------------------------------------------------------------- C24
\* The state verifies: it carries the server's HMAC of its own payload and
\* its age at time t lies within [-60 s, TTL].
ClaimStateVerifies(state, t) ==
    /\ state.sig = <<"OAUTH_STATE_SECRET", state.payload>>
    /\ t - state.payload.ts >= -60
    /\ t - state.payload.ts <= 600

\* C24: tokens are stored for a business only if the state's HMAC
\* verifies, its age lies within [-60 s, TTL], the nonce names a stored
\* flow that has not been consumed before, and that flow's business id is
\* the state's business id, for which the tokens are stored.
TokensStoredOnlyIfVerified ==
    \A g \in gtok :
        /\ ClaimStateVerifies(g.state, g.verifiedAt)
        /\ g.flow.nonce = g.state.payload.nonce
        /\ g.flow.nonce # ""
        /\ g.flow.business_id = g.state.payload.businessId
        /\ g.businessId = g.state.payload.businessId
        /\ \A h \in gtok : h.flow.nonce = g.flow.nonce => h = g

\* ---------------------------------------------------------------- C25
\* The three fields come from one encryption: one iv, and the tag is the
\* tag of that ciphertext.
ClaimSameEncryption(row) ==
    LET ct == row.refresh_token_enc.v
        iv == row.refresh_token_iv.v
        tag == row.refresh_token_tag.v
    IN  /\ Len(iv) = 1
        /\ ct[1] = "ct" /\ ct[2] = iv[1]
        /\ tag[1] = "tag" /\ tag[2] = iv[1]
        /\ SubSeq(ct, 3, Len(ct)) = SubSeq(tag, 3, Len(tag))

\* C25: in every reachable state of the token record, after any sequence
\* of upserts (with or without refresh token) and legacy-migration sweeps,
\* ciphertext, iv and tag are all present or all absent, and when present
\* they come from the same encryption.
VaultFieldsAllOrNone ==
    LET present == { f \in {"refresh_token_enc", "refresh_token_iv", "refresh_token_tag"} :
                        grow[f].t # "null" }
    IN  \/ present = {}
        \/ /\ Cardinality(present) = 3
           /\ Truthy(grow.refresh_token_enc)
           /\ Truthy(grow.refresh_token_iv)
           /\ Truthy(grow.refresh_token_tag)
           /\ ClaimSameEncryption(grow)

\* A second refresh token has replaced the first under another iv, and the
\* row came from a legacy row.
VaultFieldsAllOrNoneWitness ==
    /\ grow.refresh_token_enc.t = "str"
    /\ grow.refresh_token_enc.v = <<"ct", "iv2", "r", "2">>
    /\ grow.access_token = Str(<<"a", "0">>)
    /\ gput = Str(<<"r", "2">>)

\* ---------------------------------------------------------------- C26
\* C26: after upsertGoogleTokens has stored refresh token x, getGoogleTokens
\* returns refresh_token equal to x.
VaultReadsBackStored ==
    gread.valid /\ gput.t = "str" => gread.refresh_token = gput

\* ---------------------------------------------------------------- C27
\* leadTimeMin and maxDaysAhead are the policy values in force: the
\* configured ones, a negative one counting as none.
ClaimLeadTimeMin == IF win.lead_time_min < 0 THEN 0 ELSE win.lead_time_min
ClaimMaxDaysAhead == IF win.max_days_ahead < 0 THEN 0 ELSE win.max_days_ahead
\* The start is earlier than now + lead time.
ClaimTooSoon == win.start < win.nowMin + ClaimLeadTimeMin
\* The start lies on a later day than the day of now + max-days-ahead.
ClaimTooFar ==
    win.start \div (24 * 60) > win.nowMin \div (24 * 60) + ClaimMaxDaysAhead

Reason(x) == \E i \in 1..Len(win.details) : win.details[i] = x

\* C27: for all (now, leadTimeMin, maxDaysAhead), a start earlier than
\* now + leadTimeMin is rejected with 400 and START_TOO_SOON, one later than
\* end_of_day(now + maxDaysAhead) with 400 and START_TOO_FAR, and a start
\* inside that closed range is not rejected by the window policy.
WindowPolicy ==
    win.status # 0 =>
        /\ ClaimTooSoon => win.status = 400 /\ Reason("START_TOO_SOON")
        /\ ClaimTooFar => win.status = 400 /\ Reason("START_TOO_FAR")
        /\ ~ClaimTooSoon /\ ~ClaimTooFar => win.status = 200 /\ win.details = <<>>

\* A start on the last minute of the horizon's last day passed, with the
\* clock in the middle of a day.
WindowPolicyWitness ==
    /\ win.status = 200
    /\ win.nowMin = 9 * 60
    /\ win.max_days_ahead = 1
    /\ win.start = 2 * 24 * 60 - 1

\* ---------------------------------------------------------------- C28
\* Instants that can lie in an input interval or in its buffers.
ClaimInstants == (0 - 2)..(MaxBusyTime + 2)

\* Instant p lies in an input interval widened by the two buffers.
ClaimInExpandedInput(p) ==
    \E i \in 1..Len(busy.list) :
        /\ busy.list[i].start.iso = "ok"
        /\ busy.list[i].end.iso = "ok"
        /\ busy.list[i].start.min - busy.bufferBeforeMin <= p
        /\ p < busy.list[i].end.min + busy.bufferAfterMin

ClaimInOutput(i, p) == busy.out[i].start <= p /\ p < busy.out[i].end

\* C28: for every list of busy intervals and buffers, normalizeBusyUtc
\* returns intervals sorted by start and pairwise non-overlapping, whose
\* union equals the union of the input intervals each expanded by
\* buffer-before and buffer-after.
BusyNormalized ==
    busy.done =>
        /\ \A i \in 1..(Len(busy.out) - 1) : busy.out[i].start <= busy.out[i + 1].start
        /\ \A i, j \in 1..Len(busy.out) :
              i # j => ~\E p \in ClaimInstants : ClaimInOutput(i, p) /\ ClaimInOutput(j, p)
        /\ \A p \in ClaimInstants :
              (\E i \in 1..Len(busy.out) : ClaimInOutput(i, p)) <=> ClaimInExpandedInput(p)

\* Three parsable intervals given out of order, two of them overlapping
\* only through their buffers, came back as two.
BusyNormalizedWitness ==
    /\ busy.done
    /\ busy.bufferBeforeMin = 1
    /\ busy.bufferAfterMin = 0
    /\ busy.list = <<[start |-> [iso |-> "ok", min |-> 4], end |-> [iso |-> "ok", min |-> 4]],
                     [start |-> [iso |-> "ok", min |-> 2], end |-> [iso |-> "ok", min |-> 3]],
                     [start |-> [iso |-> "ok", min |-> 0], end |-> [iso |-> "ok", min |-> 0]]>>
    /\ Len(busy.out) = 2

\* ---------------------------------------------------------------- C29
\* The runner is between two migrations, or has finished.
ClaimBetweenMigrations == mig.pc \in {"next", "resolved", "rejected"}

ClaimAllTookEffect(f) == \A st \in 1..NumStmts : mig.effects[f][st] >= 1
ClaimNoneTookEffect(f) == \A st \in 1..NumStmts : mig.effects[f][st] = 0

\* C29: each migration file is applied at most once, in file-name order,
\* and atomically: it is in the ledger if and only if all of its statements
\* took effect; a failing migration leaves no partial effects, is not
\* recorded, and no later migration is applied.
MigrationsAtomicOnceInOrder ==
    /\ \A f \in 1..NumFiles : \A st \in 1..NumStmts : mig.effects[f][st] <= 1
    /\ \A f \in 1..NumFiles :
          ~ClaimNoneTookEffect(f) => \A g \in 1..(f - 1) : ClaimAllTookEffect(g)
    /\ ClaimBetweenMigrations =>
          \A f \in 1..NumFiles :
              /\ f \in mig.ledger <=> ClaimAllTookEffect(f)
              /\ ClaimAllTookEffect(f) \/ ClaimNoneTookEffect(f)
    /\ mig.pc = "rejected" =>
          /\ mig.i \notin mig.ledger
          /\ \A g \in (mig.i + 1)..NumFiles : ClaimNoneTookEffect(g)

\* ---------------------------------------------------------------- C30
\* Place of a step among the steps taken so far; 0 when not taken.
ClaimPlace(name) ==
    IF \E i \in 1..Len(boot.log) : boot.log[i] = name
    THEN CHOOSE i \in 1..Len(boot.log) : boot.log[i] = name
    ELSE 0

ClaimBefore(a, b) == ClaimPlace(a) > 0 /\ ClaimPlace(a) < ClaimPlace(b)

\* C30: startup runs open storage, migrations, optional legacy-token
\* re-encryption, HTTP listener, optional retry-worker ticker, in that order:
\* the listener never starts before the first three steps have succeeded,
\* the ticker never starts before the listener, and a failure in any of the
\* first three steps exits non-zero with neither started.
StartupInOrder ==
    /\ ClaimPlace("listen") > 0 =>
          /\ ClaimBefore("open", "migrations")
          /\ ClaimBefore("migrations", "listen")
          /\ boot.RUN_TOKEN_MIGRATION =>
                ClaimBefore("migrations", "tokenMigration")
                /\ ClaimBefore("tokenMigration", "listen")
    /\ ClaimPlace("ticker") > 0 => ClaimBefore("listen", "ticker")
    /\ boot.exited /\ boot.fails \in {"open", "migrations", "tokenMigration"} =>
          /\ boot.exitCode # 0
          /\ ClaimPlace("listen") = 0
          /\ ClaimPlace("ticker") = 0

\* ---------------------------------------------------------------- C31
\* The gcal_create executor has finished with a booking that it read as
\* failed: its event insert succeeded and its status update was attempted.
ClaimRetryFinishedOnFailed ==
    /\ aop.kind = "retry"
    /\ apc = "idle"
    /\ aop.snap = "failed"

\* C31: when the retry worker executes a gcal_create task and the event
\* insert succeeds while the booking is failed, the booking becomes
\* confirmed with the new event id through updateBookingStatus, and the
\* executor returns without an error, so that the task is marked succeeded.
RetryConfirmsFailedBooking ==
    ClaimRetryFinishedOnFailed =>
        /\ bk[aop.b].status = "confirmed"
        /\ bk[aop.b].event # NULL
        /\ aerr = "none"

\* ---------------------------------------------------------------- C32
\* The executions of runRetriesOnce that have started and not returned.
ClaimRunsInProgress == {w \in 1..2 : wk[w].pc # "idle"}

\* C32: at most one execution of the retry-worker tick is in progress at
\* any time, even when a tick takes longer than the tick interval; hence no
\* task is picked up and executed by two ticks at once.
AtMostOneTickInProgress ==
    /\ Cardinality(ClaimRunsInProgress) <= 1
    /\ \A w, o \in ClaimRunsInProgress : w # o => wk[w].retry = NoTask

\* ---------------------------------------------------------------- C33
\* Earlier bookings with the key of request r, by status.
ClaimPriorRows(r, statuses) ==
    { o \in Req \ {r} : /\ bk[o].status \in statuses
                        /\ ClaimKey(body[o]) = ClaimKey(body[r]) }

\* The idempotency lookup of request r answers or lets the request go on.
ClaimLookupStep(r) ==
    (pc[r] = "lookup" /\ pc'[r] # "lookup") =>
        /\ result'[r].status = 202 =>
              result'[r].bookingId \in ClaimPriorRows(r, {"pending"})
        /\ (/\ ClaimPriorRows(r, {"failed", "cancelled"}) # {}
            /\ ClaimPriorRows(r, {"pending", "confirmed"}) = {})
              => /\ pc'[r] = "freebusy"
                 /\ result'[r] = result[r]

ClaimExpiredHoldOfBusiness(i) ==
    /\ sw.before[i].business_id = sw.businessId
    /\ sw.before[i].status = "pending"
    /\ sw.before[i].hold_expires_at_utc # NULL
    /\ sw.before[i].hold_expires_at_utc <= sw.at

\* C34: cleanupExpiredHolds(businessId) changes only bookings of that
\* business that are pending with hold-expires-at-utc <= now, setting them
\* to cancelled; it alters no confirmed, failed, cancelled or unexpired
\* pending booking and no booking of another business, and running it again
\* immediately afterwards changes nothing.
SweepTouchesOnlyExpiredHolds ==
    (sw.pc = "run" /\ sw.runs >= 1 /\ sw.businessId # "") =>
        /\ \A i \in 1..NumSweepRows :
              IF ClaimExpiredHoldOfBusiness(i)
              THEN sw.rows[i] = [sw.before[i] EXCEPT !.status = "cancelled"]
              ELSE sw.rows[i] = sw.before[i]
        /\ sw.runs >= 2 => sw.rows = sw.prev

\* Swept twice: an expired hold of the business was cancelled while an
\* expired hold of the other business stayed pending.
SweepTouchesOnlyExpiredHoldsWitness ==
    /\ sw.pc = "run"
    /\ sw.runs = 2
    /\ sw.businessId = "bizA"
    /\ \E i, j \in 1..NumSweepRows :
          /\ ClaimExpiredHoldOfBusiness(i)
          /\ sw.rows[i].status = "cancelled"
          /\ sw.before[j].business_id = "bizB"
          /\ sw.before[j].status = "pending"
          /\ sw.before[j].hold_expires_at_utc = sw.at
          /\ sw.rows[j].status = "pending"

\* ---------------------------------------------------------------- C35
\* The event id the calendar adapter returned for the booking of request r,
\* or the one the idempotency lookup on the calendar found.
ClaimEventIdObtained(r) == created[r] # NULL

\* C35: in every reachable state a booking's external-event-id is non-null
\* exactly when its status is confirmed and an event id was obtained for it;
\* pending, failed and cancelled bookings carry no external-event-id.
EventIdIffConfirmed ==
    \A r \in Req :
        bk[r].status # "none" =>
            /\ bk[r].event # NULL => bk[r].status = "confirmed" /\ ClaimEventIdObtained(r)
            /\ bk[r].status \in {"pending", "failed", "cancelled"} => bk[r].event = NULL

\* ---------------------------------------------------------------- C36
\* C36: for a given dedupe key, sendAutoSmsToCaller sends at most one SMS
\* over any number of invocations, sequential or concurrent; every
\* invocation that starts after another one has finished is skipped.
AutoSmsAtMostOnce ==
    "sms" \in DOMAIN au =>
        /\ au.sms <= 1
        /\ \A i \in 1..NumInvocations :
              (au.later[i] /\ au.pc[i] # "idle") => au.pc[i] = "skipped"

\* ---------------------------------------------------------------- C37
ClaimNonRetryable(error) ==
    error.status >= 400 /\ error.status < 500 /\ error.status # 429

ClaimNextSleep(o, attempt) ==
    { Min(o.maxDelayMs, o.baseDelayMs * PowerOfTwo(attempt - 1)) + jitter :
        jitter \in 0..o.baseDelayMs }

ClaimRetryHelperSafe ==
    "calls" \in DOMAIN rh =>
        /\ rh.calls <= rh.o.maxAttempts
        /\ rh.o.label = "google.freebusy" => rh.calls <= 3
        /\ (rh.calls > 0 /\ ClaimNonRetryable(rh.last)) =>
              rh.pc = "threw" /\ rh.thrown = rh.last
        /\ rh.pc = "sleep" =>
              /\ rh.delayMs \in ClaimNextSleep(rh.o, rh.attempt)
              /\ rh.elapsedMs + rh.delayMs <= rh.o.maxElapsedMs
        /\ rh.pc = "threw" => rh.thrown = rh.last /\ rh.last # NoError
        /\ rh.pc = "returned" => rh.result = rh.calls

ClaimRetryHelperDone == "calls" \in DOMAIN rh /\ rh.pc \in {"returned", "threw"}

\* C37: the synchronous retry helper calls the operation at most
\* maxAttempts times (3 for freebusy), rethrows at once on a 4xx other than
\* 429, never sleeps when elapsed time plus the next sleep
\* (min(cap, base*2^(attempt-1)) + jitter in [0, base]) would exceed the
\* budget, and always ends with the operation's result or its last error.
RetryHelperTerminates == []ClaimRetryHelperSafe /\ <>ClaimRetryHelperDone

\* an attempt abandoned for the budget after a sleep, with a retryable error
RetryHelperTerminatesWitness ==
    /\ "calls" \in DOMAIN rh
    /\ rh.pc = "threw" /\ rh.slept >= 1 /\ rh.calls < rh.o.maxAttempts
    /\ rh.elapsedMs + rh.delayMs > rh.o.maxElapsedMs
    /\ rh.thrown.status = 503

\* ---------------------------------------------------------------- C38
ClaimEarliestLocal == gs.nowZ + gs.business.lead_time_min * 60

\* C38: every slot emitted by generateSlots starts at or after
\* earliestLocal = now(timezone) + leadTime, whatever the instant now is.
SlotsNotBeforeEarliest ==
    ("out" \in DOMAIN gs /\ gs.pc = "returned") =>
        \A k \in 1..Len(gs.out) : gs.out[k].start_local >= ClaimEarliestLocal

\* ---------------------------------------------------------------- C39
ClaimTerminal(t) == rq.rows[t].status \in {"succeeded", "failed"}

ClaimExecutedWithinMax ==
    "rows" \in DOMAIN rq =>
        \A t \in 1..NumTasks :
            rq.rows[t].status # "none" => rq.executed[t] <= rq.rows[t].max_attempts

ClaimCountWithinMax ==
    "rows" \in DOMAIN rq =>
        \A t \in 1..NumTasks : rq.rows[t].attempt_count <= rq.rows[t].max_attempts

ClaimEveryTaskEnds ==
    \A t \in 1..NumTasks :
        ("rows" \in DOMAIN rq /\ rq.rows[t].status = "pending") ~> ClaimTerminal(t)

\* C39: with the worker ticking, every enqueued retry task reaches
\* succeeded or failed; it is executed at most max-attempts times, its
\* attempt-count never exceeds max-attempts, and no pending task is left
\* behind by the per-tick limit.
RetryTaskEnds ==
    /\ []ClaimExecutedWithinMax
    /\ []ClaimCountWithinMax
    /\ ClaimEveryTaskEnds

\* ---------------------------------------------------------------- C40
ClaimHeld(r) == bk[r].status = "pending"

\* C40: every booking created as a pending hold eventually leaves pending:
\* it becomes confirmed or failed, or is swept to cancelled after its hold
\* has expired.
HoldsLeavePending ==
    \A r \in 1..NumReq : ClaimHeld(r) ~> (bk[r].status \in {"confirmed", "failed", "cancelled"})
====
